---- MODULE Spec2Model ----
(***************************************************************************)
(* Model of the generated TypeScript SDK's HTTP request pipeline           *)
(* (Intergalactic Bank API SDK, src/http): one call travelling through     *)
(* the handler chain that HttpClient assembles                             *)
(*   ResponseValidationHandler -> RequestValidationHandler ->              *)
(*   RetryHandler -> HookHandler -> TerminatingHandler.                    *)
(* The network (fetch) and Math.random are the environment: every outcome  *)
(* they can produce is a nondeterministic choice.                          *)
(***************************************************************************)
EXTENDS Integers, Sequences, FiniteSets, TLC

VARIABLES
    request,        \* the Request object handed to HttpClient.call (request.body is mutated in place)
    suppliedHook,   \* the hook passed to the HttpClient constructor and stored in HookHandler.hook
    pc,             \* position of the call inside the chain
    attempt,        \* RetryHandler.handle: loop variable `attempt`
    nextRequest,    \* HookHandler.handle: the copy returned by beforeRequest, <<>> before the first attempt
    response,       \* the HttpResponse travelling back up the chain
    error,          \* the error being thrown up the chain
    outcome,        \* "pending", "returned" or "raised": how HttpClient.call settled
    delays,         \* every value calculateDelay returned during the call, in order
    trace,          \* history: the handler steps executed so far, in order
    originalBody,   \* history: request.body as the caller passed it
    everyAttemptRetryable, \* history: every attempt so far failed with an HttpError the retry policy covers
    firstRequest,   \* history: the Request as the caller built it, before any call or nextPage changed it
    handlers,       \* the instance fields of the handler objects (next, hook), by handler
    calls,          \* the calls in flight through one HttpClient: each call's own frame, by call number
    heap,           \* the Map objects that Requests sharing parameter maps refer to, by address
    config,         \* the SdkConfig of each level of a service, and RequestBuilder.params.config
    bank            \* the bank API server: db.accounts, db.transactions and the last response sent

vars == <<request, suppliedHook, pc, attempt, nextRequest, response, error, outcome, delays, trace,
          originalBody, everyAttemptRetryable, firstRequest, handlers, calls, heap, config, bank>>

----------------------------------------------------------------------------
(* Bounds of the model *)

\* largest retry.attempts value a caller configures
MaxAttempts == 2

\* Math.random() is sampled as k / RandomDen for k in 0 .. RandomDen-1
RandomDen == 2

----------------------------------------------------------------------------
(* Optional values: <<>> is undefined, <<v>> is the defined value v *)

Undefined == <<>>

Some(v) == <<v>>

\* the ?? operator (with optional chaining on the left)
Nullish(opt, default) == IF opt = Undefined THEN default ELSE opt[1]

Min(a, b) == IF a < b THEN a ELSE b

Max(a, b) == IF a > b THEN a ELSE b

\* Math.pow on non-negative integer exponents
RECURSIVE Pow(_, _)
Pow(b, e) == IF e <= 0 THEN 1 ELSE b * Pow(b, e - 1)

\* membership in an array (Array.prototype.includes)
Includes(arr, x) == \E i \in 1..Len(arr) : arr[i] = x

\* index of the first definition with the given content type and status, 0 when
\* there is none (Array.prototype.find with the matchers' predicate)
FirstMatch(defs, contentType, status) ==
    LET Matches(d) == d.contentType = contentType /\ d.status = status
    IN IF \E i \in 1..Len(defs) : Matches(defs[i])
       THEN CHOOSE i \in 1..Len(defs) : Matches(defs[i]) /\ \A j \in 1..(i - 1) : ~Matches(defs[j])
       ELSE 0

----------------------------------------------------------------------------
(* Content types *)

\* Content-Type header values the modelled server answers with
ResponseHeaders == {"application/json", "text/plain", ""}

\* Content-Type header values of the responses whose decoding is examined
DecodeHeaders ==
    {"application/json", "application/vnd.api+json", "text/event-stream", "text/plain",
     "application/xml", "image/png", ""}

\* getContentTypeDefinition, its rules in the order of the source, on the
\* header values of the model: application/*xml; form-urlencoded; event-stream;
\* application/json, text/json and +json; application/javascript; text/*;
\* image/svg+xml; image/*; everything else is binary
getContentTypeDefinition(ct) ==
    IF ct = "application/xml" THEN "xml"
    ELSE IF ct = "application/x-www-form-urlencoded" THEN "form"
    ELSE IF ct = "text/event-stream" THEN "eventStream"
    ELSE IF ct \in {"application/json", "text/json", "application/vnd.api+json"} THEN "json"
    ELSE IF ct = "application/javascript" THEN "text"
    ELSE IF ct \in {"text/plain"} THEN "text"
    ELSE IF ct = "image/svg+xml" THEN "text"
    ELSE IF ct \in {"image/png"} THEN "image"
    ELSE "binary"

----------------------------------------------------------------------------
(* Errors and responses *)

\* class: the JavaScript class of the thrown object; ctor: the ErrorDefinition
\* constructor of a typed error; status: metadata.status (-1: no metadata);
\* attempt: the attempt of the retry loop that produced it (0: none)
MkError(class, ctor, status, message, att) ==
    [class |-> class, ctor |-> ctor, status |-> status, message |-> message, attempt |-> att]

NoError == MkError("none", "", -1, "", 0)

\* instanceof widened to every error that carries response metadata
IsHttpErrorByMetadata(e) == e.status # -1

\* `error instanceof HttpError`: only the class of src/http/error.ts; ThrowableError
\* and ValidationError extend Error
IsHttpError(e) == e.class = "HttpError"

\* data: Undefined until ResponseValidationHandler decodes the body;
\* afterResponseBy: the hook whose afterResponse returned this response
MkResponse(status, header, body, att) ==
    [status |-> status, header |-> header, body |-> body, data |-> Undefined,
     afterResponseBy |-> "", attempt |-> att]

NoResponse == MkResponse(0, "", "", 0)

\* bodies the modelled server answers with: JSON text of an object with a
\* non-empty message, JSON text of an object without one, and text that is not JSON
ResponseBodies == {"{message:boom}", "{}", "not json"}

\* the body of a server-sent event carrying the first of these JSON texts
EventBody == "data: {message:boom}"

\* JSON.parse succeeds
JsonParses(body) == body \in {"{message:boom}", "{}"}

\* (json as any)?.message || ''
MessageOf(body) == IF body = "{message:boom}" THEN "boom" ELSE ""

\* status codes the modelled server answers with
Statuses == {200, 204, 404, 408, 429, 500, 503}

----------------------------------------------------------------------------
(* Retry configuration (RetryOptions) *)

MkRetry(attempts, delayMs, maxDelayMs, backoffFactor, jitterMs, statusCodesToRetry, httpMethodsToRetry) ==
    [attempts |-> attempts, delayMs |-> delayMs, maxDelayMs |-> maxDelayMs,
     backoffFactor |-> backoffFactor, jitterMs |-> jitterMs,
     statusCodesToRetry |-> statusCodesToRetry, httpMethodsToRetry |-> httpMethodsToRetry]

\* the retry policy RequestBuilder's constructor installs
BuilderDefaultRetry ==
    MkRetry(3, Some(150), Some(5000), Some(2), Some(50), Undefined,
            Some(<<"GET", "POST", "PUT", "DELETE", "PATCH", "HEAD", "OPTIONS">>))

\* the backoff example: attempts=4, delayMs=100, backoffFactor=2, maxDelayMs=500, jitterMs=0
BackoffExampleRetry == MkRetry(4, Some(100), Some(500), Some(2), Some(0), Undefined, Undefined)

\* a caller who configures only `attempts` on a hand-built Request
AttemptsOnlyRetry(a) == MkRetry(a, Undefined, Undefined, Undefined, Some(0), Undefined, Undefined)

\* a caller who restricts the retried status codes and methods
RestrictedRetry == MkRetry(3, Some(10), Some(15), Some(3), Some(2), Some(<<404, 503>>), Some(<<"GET">>))

\* request.config.retry of the modelled calls; Undefined: no retry configuration given
RetryChoices ==
    {Undefined, Some(BuilderDefaultRetry), Some(BackoffExampleRetry), Some(RestrictedRetry)}
    \cup {Some(AttemptsOnlyRetry(a)) : a \in (-1)..MaxAttempts}

----------------------------------------------------------------------------
(* Request *)

\* parameter values, as the entries the serializers walk: a primitive is one
\* entry without a name, an array one unnamed entry per item, an object one
\* named entry per property
Primitive(v) == [kind |-> "primitive", entries |-> <<<<"", v>>>>]

ArrayOf(items) == [kind |-> "array", entries |-> [i \in DOMAIN items |-> <<"", items[i]>>]]

ObjectOf(entries) == [kind |-> "object", entries |-> entries]

\* RequestParameter
MkParam(key, value, style, explode, encode) ==
    [key |-> key, value |-> value, style |-> style, explode |-> explode, encode |-> encode,
     isLimit |-> FALSE, isOffset |-> FALSE, isCursor |-> FALSE]

\* ErrorDefinition
MkErrorDefinition(ctor, contentType, status) ==
    [error |-> ctor, contentType |-> contentType, status |-> status]

\* request.errors of the modelled calls
ErrorsChoices ==
    { <<>>,
      <<MkErrorDefinition("ServiceUnavailableError", "json", 503)>>,
      <<MkErrorDefinition("NotFoundError", "json", 404),
        MkErrorDefinition("PlainError", "text", 503),
        MkErrorDefinition("ShadowedError", "json", 404)>> }

\* request bodies: no body, an object the request schema accepts, an object it rejects
RequestBodies == {"undefined", "obj:ok", "obj:bad"}

\* request schemas: z.any() (RequestBuilder's default) and a z.object schema
RequestSchemas == {"any", "object"}

\* ZodType.parse succeeds
SchemaAccepts(schema, body) == schema = "any" \/ body = "obj:ok"

\* JSON.stringify of the parsed body; JSON.stringify(undefined) is undefined
JSONstringify(v) ==
    CASE v = "undefined" -> "undefined"
      [] v = "obj:ok" -> "json(obj:ok)"
      [] v = "obj:bad" -> "json(obj:bad)"
      [] OTHER -> "json(string)"

\* ResponseDefinition
MkResponseDefinition(schema, contentType, status) ==
    [schema |-> schema, contentType |-> contentType, status |-> status]

\* request.responses of the modelled calls
ResponsesChoices ==
    { <<MkResponseDefinition("object", "json", 200)>>,
      <<MkResponseDefinition("string", "text", 200),
        MkResponseDefinition("object", "json", 200),
        MkResponseDefinition("undefined", "json", 404)>> }

\* the Request objects the modelled calls are made with; a text body is passed
\* through without consulting the schema, so text requests keep the default schema;
\* path and pathPattern are texts cut into pieces, a {name} token being one piece
Requests ==
    {r \in
        [method : {"GET", "TRACE"},
         baseUrl : {"https://bank"},
         path : {<<"/accounts">>},
         pathPattern : {<<"/accounts">>},
         body : RequestBodies,
         requestSchema : RequestSchemas,
         requestContentType : {"json", "text"},
         config : [retry : RetryChoices, validation : {Undefined, Some([responseValidation |-> Some(FALSE)])}],
         errors : ErrorsChoices,
         responses : ResponsesChoices,
         headers : {("x-api-key" :> MkParam("x-api-key", Primitive("k1"), "simple", FALSE, FALSE))},
         queryParams : {("limit" :> MkParam("limit", Primitive("10"), "form", TRUE, TRUE))},
         pathParams : {<<>>},
         cookies : {<<>>},
         pagination : {Undefined}] :
        r.requestContentType = "text" => r.requestSchema = "any"}

----------------------------------------------------------------------------
(* Hooks *)

\* hook classes: CustomHook is the SDK's pass-through default; AuditHook is a
\* user-written Hook that adds a header before the request and marks the response
Hooks == {"CustomHook", "AuditHook"}

\* Hook.beforeRequest(request, params) of the given hook class
HookBeforeRequest(hook, hookRequest) ==
    IF hook = "CustomHook"
    THEN hookRequest
    ELSE [hookRequest EXCEPT !.headers =
            [k \in (DOMAIN hookRequest.headers) \cup {"x-audit"} |->
                IF k = "x-audit" THEN Primitive("on") ELSE hookRequest.headers[k]]]

\* Hook.afterResponse(request, response, params) of the given hook class;
\* afterResponseBy records which hook returned the response
HookAfterResponse(hook, hookRequest, resp) == [resp EXCEPT !.afterResponseBy = hook]

\* TransportHookAdapter.hook: the adapter's own field initialiser
AdapterHook == "CustomHook"

\* TransportHookAdapter.requestToHookRequest
requestToHookRequest(req) ==
    [baseUrl |-> req.baseUrl,
     method |-> req.method,
     path |-> req.path,
     headers |-> [k \in DOMAIN req.headers |-> req.headers[k].value],
     body |-> req.body,
     queryParams |-> [k \in DOMAIN req.queryParams |-> req.queryParams[k].value],
     pathParams |-> [k \in DOMAIN req.pathParams |-> req.pathParams[k].value]]

\* TransportHookAdapter.hookParamsToTransportParams (its `encode` argument is never read)
hookParamsToTransportParams(hookParams, originalTransportParams, encode) ==
    [k \in DOMAIN hookParams |->
        LET known == k \in DOMAIN originalTransportParams
            requestParam == originalTransportParams[k]
        IN [key |-> k,
            value |-> hookParams[k],
            encode |-> IF known THEN requestParam.encode ELSE FALSE,
            style |-> IF known THEN requestParam.style ELSE "none",
            explode |-> IF known THEN requestParam.explode ELSE FALSE,
            isLimit |-> IF known THEN requestParam.isLimit ELSE FALSE,
            isOffset |-> IF known THEN requestParam.isOffset ELSE FALSE,
            isCursor |-> IF known THEN requestParam.isCursor ELSE FALSE]]

\* Request.copy(overrides), for overrides that are all defined: the fields go
\* through the constructor, which takes params.path as the new pathPattern and
\* builds path from it while pathParams is still the empty field initialiser
\* (so path is the pattern as given); pagination is not among the fields copy
\* passes on
copy(req, overrides) ==
    LET params == [f \in DOMAIN req |-> IF f \in DOMAIN overrides THEN overrides[f] ELSE req[f]]
    IN [params EXCEPT !.pathPattern = params.path,
                      !.pagination = IF "pagination" \in DOMAIN overrides
                                     THEN overrides.pagination ELSE Undefined]

\* TransportHookAdapter.beforeRequest, run with the given hook
AdapterBeforeRequest(hook, req) ==
    LET newRequest == HookBeforeRequest(hook, requestToHookRequest(req))
    IN copy(req,
            [baseUrl |-> newRequest.baseUrl,
             method |-> newRequest.method,
             path |-> newRequest.path,
             body |-> newRequest.body,
             queryParams |-> hookParamsToTransportParams(newRequest.queryParams, req.queryParams, TRUE),
             headers |-> hookParamsToTransportParams(newRequest.headers, req.headers, FALSE),
             pathParams |-> hookParamsToTransportParams(newRequest.pathParams, req.headers, FALSE)])

\* TransportHookAdapter.afterResponse, run with the given hook
AdapterAfterResponse(hook, req, resp) == HookAfterResponse(hook, requestToHookRequest(req), resp)

\* the hook HookHandler.handle runs: it builds a fresh TransportHookAdapter,
\* whose hook is the adapter's own CustomHook; HookHandler.hook is not read
HookHandlerHook(supplied) == AdapterHook

----------------------------------------------------------------------------
(* RetryHandler *)

\* request.config.retry?.<field>
RetryField(req, field) ==
    IF req.config.retry = Undefined THEN Undefined
    ELSE IF field = "attempts" THEN Some(req.config.retry[1].attempts)
    ELSE req.config.retry[1][field]

\* a maxAttempts that is never below one
maxAttemptsAtLeastOne(req) == Max(Nullish(RetryField(req, "attempts"), 3), 1)

\* const maxAttempts = request.config.retry?.attempts ?? 3
maxAttemptsOf(req) == Nullish(RetryField(req, "attempts"), 3)

\* the default httpMethodsToRetry of shouldRetry
DefaultMethodsToRetry == <<"GET", "POST", "PUT", "DELETE", "PATCH", "HEAD", "OPTIONS">>

\* shouldRetry without the status test: every HttpError on a retryable method is retried
shouldRetryIgnoringStatus(err, req) ==
    /\ IsHttpError(err)
    /\ Includes(Nullish(RetryField(req, "httpMethodsToRetry"), DefaultMethodsToRetry), req.method)

\* a status test in which statusCodesToRetry extends the default retry set
shouldRetryStatusExtending(err, req) ==
    LET statusCodesToRetry == RetryField(req, "statusCodesToRetry")
    IN \/ statusCodesToRetry # Undefined /\ Includes(statusCodesToRetry[1], err.status)
       \/ err.status >= 500 \/ Includes(<<408, 429>>, err.status)

\* const shouldRetryStatus of RetryHandler.shouldRetry: a given
\* statusCodesToRetry (an array, so truthy even when empty) is the whole test
shouldRetryStatus(err, req) ==
    LET statusCodesToRetry == RetryField(req, "statusCodesToRetry")
    IN IF statusCodesToRetry # Undefined
       THEN Includes(statusCodesToRetry[1], err.status)
       ELSE err.status >= 500 \/ Includes(<<408, 429>>, err.status)

\* RetryHandler.shouldRetry
shouldRetry(err, req) ==
    IF ~IsHttpError(err) THEN FALSE
    ELSE LET httpMethodsToRetry == Nullish(RetryField(req, "httpMethodsToRetry"), DefaultMethodsToRetry)
             shouldRetryMethod == Includes(httpMethodsToRetry, req.method)
         IN shouldRetryStatus(err, req) /\ shouldRetryMethod

\* calculateDelay without the Math.min cap
calculateDelayUncapped(att, req, rnd) ==
    LET baseDelay == Nullish(RetryField(req, "delayMs"), 150)
        backoffFactor == Nullish(RetryField(req, "backoffFactor"), 2)
        jitter == Nullish(RetryField(req, "jitterMs"), 50)
        delay == baseDelay * Pow(backoffFactor, att - 1)
    IN IF jitter > 0 THEN delay + ((rnd * jitter) \div RandomDen) ELSE delay

\* RetryHandler.calculateDelay; rnd / RandomDen is the value Math.random() returned
calculateDelay(att, req, rnd) ==
    LET baseDelay == Nullish(RetryField(req, "delayMs"), 150)
        backoffFactor == Nullish(RetryField(req, "backoffFactor"), 2)
        maxDelay == Nullish(RetryField(req, "maxDelayMs"), 5000)
        jitter == Nullish(RetryField(req, "jitterMs"), 50)
        capped == Min(baseDelay * Pow(backoffFactor, att - 1), maxDelay)
    IN IF jitter > 0 THEN capped + ((rnd * jitter) \div RandomDen) ELSE capped

\* a catch block that takes no attempt for the last one
lastAttemptNever(req, att) == FALSE
\* attempt === maxAttempts
lastAttempt(req, att) == att = maxAttemptsOf(req)

\* the catch block giving up one attempt early
rethrowsOneEarly(err, req, att) == ~shouldRetry(err, req) \/ att >= maxAttemptsOf(req) - 1

\* the condition under which the catch block of RetryHandler.handle rethrows
rethrows(err, req, att) == ~shouldRetry(err, req) \/ lastAttempt(req, att)

----------------------------------------------------------------------------
(* ResponseValidationHandler: matching and decoding *)

\* getResponseDefinition without the shortcut for a single definition
getResponseDefinitionAlwaysMatching(responses, resp) ==
    FirstMatch(responses, getContentTypeDefinition(resp.header), resp.status)

\* ResponseMatcher.getResponseDefinition: index into request.responses, 0 for undefined
getResponseDefinition(responses, resp) ==
    LET contentType == getContentTypeDefinition(resp.header)
    IN IF Len(responses) = 0 THEN 0
       ELSE IF Len(responses) = 1 THEN 1
       ELSE FirstMatch(responses, contentType, resp.status)

\* hasContent without the test for status 204
hasContentDespite204(responseDefinition, resp) ==
    responseDefinition.schema # "undefined"

\* ResponseValidationHandler.hasContent
hasContent(responseDefinition, resp) ==
    responseDefinition.schema # "undefined" /\ resp.status # 204

\* responseDefinition.schema.parse(data) succeeds: the object schema requires a
\* message field, the string schema accepts any decoded text, z.any() everything
ResponseSchemaAccepts(schema, data) ==
    CASE schema = "object" -> data = <<"json", "{message:boom}">>
      [] schema = "string" -> data[1] = "text"
      [] schema = "any" -> TRUE
      [] OTHER -> FALSE

\* request.config.validation?.responseValidation ?? true
responseValidationEnabled(req) ==
    IF req.config.validation = Undefined THEN TRUE
    ELSE Nullish(req.config.validation[1].responseValidation, TRUE)

\* decodedBody.startsWith('data: ') ? decodedBody.substring(6) : decodedBody
StripDataPrefix(body) == IF body = EventBody THEN "{message:boom}" ELSE body

\* the handler of decodeFromArrayBuffer's map for the given content type, the
\* JSON default for a type the map lacks: whether it decodes the body, and the
\* decoded value as <<form, text>>
DecodeAs(contentType, body) ==
    CASE contentType \in {"binary", "image"} -> [ok |-> TRUE, data |-> <<"bytes", body>>]
      [] contentType = "multipartFormData" -> [ok |-> TRUE, data |-> <<"formData", body>>]
      [] contentType \in {"text", "xml"} -> [ok |-> TRUE, data |-> <<"text", body>>]
      [] contentType = "form" -> [ok |-> TRUE, data |-> <<"urlEncoded", body>>]
      [] contentType = "eventStream" ->
            [ok |-> JsonParses(StripDataPrefix(body)), data |-> <<"json", StripDataPrefix(body)>>]
      [] OTHER -> [ok |-> JsonParses(body), data |-> <<"json", body>>]

\* ResponseValidationHandler.decodeFromArrayBuffer up to the call of validate:
\* `const contentType = responseDefinition.contentType` selects the handler;
\* resp.body is the array buffer
decodeFromArrayBuffer(responseDefinition, resp) ==
    DecodeAs(responseDefinition.contentType, resp.body)

\* ResponseValidationHandler.decodeBodyFromFullResponse: the returned response
\* or the thrown error, and whether the body was read (extractBodyForValidation)
decodeBodyFromFullResponse(req, resp) ==
    LET i == getResponseDefinition(req.responses, resp)
        def == req.responses[i]
        decoded == decodeFromArrayBuffer(def, resp)
    IN IF i = 0 \/ ~hasContent(def, resp)
       THEN [ok |-> TRUE, response |-> resp, error |-> NoError, bodyRead |-> FALSE]
       ELSE IF ~decoded.ok
       THEN [ok |-> FALSE, response |-> NoResponse,
             error |-> MkError("SyntaxError", "", -1, "Unexpected token", 0), bodyRead |-> TRUE]
       ELSE IF responseValidationEnabled(req) /\ ~ResponseSchemaAccepts(def.schema, decoded.data)
       THEN [ok |-> FALSE, response |-> NoResponse,
             error |-> MkError("ZodError", "", -1, "invalid response", 0), bodyRead |-> TRUE]
       ELSE [ok |-> TRUE, response |-> [resp EXCEPT !.data = Some(decoded.data)], error |-> NoError,
             bodyRead |-> TRUE]

----------------------------------------------------------------------------
(* The handler chain *)

\* the chain assembled with the hook outside the retry loop
ChainHookOutsideRetry ==
    <<"ResponseValidationHandler", "RequestValidationHandler", "HookHandler",
      "RetryHandler", "TerminatingHandler">>

\* HttpClient.constructor: the handlers in the order they are added
Chain ==
    <<"ResponseValidationHandler", "RequestValidationHandler", "RetryHandler",
      "HookHandler", "TerminatingHandler">>

PositionOf(h) == CHOOSE i \in 1..Len(Chain) : Chain[i] = h

\* RequestHandlerChain.addHandler: previousHandler.next = handler
NextHandler(h) == IF PositionOf(h) < Len(Chain) THEN Chain[PositionOf(h) + 1] ELSE "none"

\* the handler whose `next` is h; the first handler is called by HttpClient.call
Caller(h) == IF PositionOf(h) > 1 THEN Chain[PositionOf(h) - 1] ELSE "HttpClient"

\* the instance fields after HttpClient's constructor ran: addHandler links each
\* handler to the one added after it, the last handler's next stays undefined,
\* and HookHandler keeps the hook it was constructed with
LinkedHandlers ==
    [h \in {Chain[i] : i \in 1..Len(Chain)} |->
        [next |-> IF NextHandler(h) = "none" THEN Undefined ELSE Some(NextHandler(h)),
         hook |-> IF h = "HookHandler" THEN Some("CustomHook") ELSE Undefined]]

\* where control continues when handler h returns a response to its caller:
\* ResponseValidationHandler decodes it, HookHandler inspects its status,
\* RequestValidationHandler and RetryHandler return it as it is
RECURSIVE ReturnTo(_)
ReturnTo(h) ==
    LET c == Caller(h)
    IN CASE c = "HttpClient" -> "done"
         [] c = "ResponseValidationHandler" -> "ResponseValidationHandler.decode"
         [] c = "HookHandler" -> "HookHandler.after"
         [] OTHER -> ReturnTo(c)

\* where control continues when handler h throws: only RetryHandler has a catch block
RECURSIVE ThrowTo(_)
ThrowTo(h) ==
    LET c == Caller(h)
    IN CASE c = "HttpClient" -> "done"
         [] c = "RetryHandler" -> "RetryHandler.catch"
         [] OTHER -> ThrowTo(c)

----------------------------------------------------------------------------
(* The retry policy as the RetryHandler documentation states it *)

\* the configured retry set: statusCodesToRetry when given, else every status
\* from 500 up, plus 408 and 429
InRetrySet(req, status) ==
    IF req.config.retry # Undefined /\ req.config.retry[1].statusCodesToRetry # Undefined
    THEN \E i \in DOMAIN req.config.retry[1].statusCodesToRetry[1] :
            req.config.retry[1].statusCodesToRetry[1][i] = status
    ELSE status >= 500 \/ status \in {408, 429}

\* the request's method is in the configured retryable-methods set
MethodRetried(req) ==
    IF req.config.retry # Undefined /\ req.config.retry[1].httpMethodsToRetry # Undefined
    THEN \E i \in DOMAIN req.config.retry[1].httpMethodsToRetry[1] :
            req.config.retry[1].httpMethodsToRetry[1][i] = req.method
    ELSE req.method \in {"GET", "POST", "PUT", "DELETE", "PATCH", "HEAD", "OPTIONS"}

\* an HttpError the retry policy covers
RetryableFailure(err, req) ==
    err.class = "HttpError" /\ InRetrySet(req, err.status) /\ MethodRetried(req)

----------------------------------------------------------------------------
(* The call *)

Event(op, hook) == [op |-> op, hook |-> hook]

Init ==
    /\ request \in Requests
    /\ suppliedHook \in Hooks
    /\ pc = "idle"
    /\ attempt = 0
    /\ nextRequest = Undefined
    /\ response = NoResponse
    /\ error = NoError
    /\ outcome = "pending"
    /\ delays = <<>>
    /\ trace = <<>>
    /\ originalBody = request.body
    /\ everyAttemptRetryable = TRUE
    /\ heap = <<>>
    /\ config = <<>>
    /\ bank = <<>>
    /\ firstRequest = request
    /\ handlers = [LinkedHandlers EXCEPT !["HookHandler"].hook = Some(suppliedHook)]
    /\ calls = <<>>

\* handler h delegates: this.next.handle(request)
Delegate(h) == pc' = NextHandler(h) \o ".handle"

\* handler h returns resp to its caller; the first handler's return settles HttpClient.call
Return(h, resp) ==
    /\ response' = resp
    /\ error' = NoError
    /\ pc' = ReturnTo(h)
    /\ outcome' = IF ReturnTo(h) = "done" THEN "returned" ELSE outcome

\* handler h throws err to its caller; thrown out of the first handler it rejects HttpClient.call
Throw(h, err) ==
    /\ error' = err
    /\ response' = NoResponse
    /\ pc' = ThrowTo(h)
    /\ outcome' = IF ThrowTo(h) = "done" THEN "raised" ELSE outcome

\* HttpClient.call -> RequestHandlerChain.callChain: handlers[0].handle(request)
CallChain ==
    /\ pc = "idle"
    /\ pc' = Chain[1] \o ".handle"
    /\ UNCHANGED <<request, suppliedHook, attempt, nextRequest, response, error, outcome, delays,
                   trace, originalBody, everyAttemptRetryable>>
    /\ UNCHANGED <<firstRequest, handlers, calls, heap, config, bank>>

\* ResponseValidationHandler.handle up to `await this.next!.handle(request)`
ResponseValidationEnter ==
    /\ pc = "ResponseValidationHandler.handle"
    /\ Delegate("ResponseValidationHandler")
    /\ trace' = Append(trace, Event("ResponseValidationHandler", ""))
    /\ UNCHANGED <<request, suppliedHook, attempt, nextRequest, response, error, outcome, delays,
                   originalBody, everyAttemptRetryable>>
    /\ UNCHANGED <<firstRequest, handlers, calls, heap, config, bank>>

\* validateRequest serializing the body before it validates it
validateRequestSerializeFirst(req) ==
    IF req.requestContentType = "json"
    THEN IF SchemaAccepts(req.requestSchema, req.body)
         THEN [ok |-> TRUE, body |-> JSONstringify(req.body), error |-> NoError]
         ELSE [ok |-> FALSE, body |-> JSONstringify(req.body),
               error |-> MkError("ValidationError", "", -1, req.body, 0)]
    ELSE [ok |-> TRUE, body |-> req.body, error |-> NoError]

\* RequestValidationHandler.validateRequest: the new request.body, or the thrown error
validateRequest(req) ==
    IF req.requestContentType = "json"
    THEN IF SchemaAccepts(req.requestSchema, req.body)
         THEN [ok |-> TRUE, body |-> JSONstringify(req.body), error |-> NoError]
         ELSE [ok |-> FALSE, body |-> req.body,
               error |-> MkError("ValidationError", "", -1, req.body, 0)]
    ELSE [ok |-> TRUE, body |-> req.body, error |-> NoError]

\* RequestValidationHandler.handle: validateRequest, then this.next.handle(request)
RequestValidation ==
    /\ pc = "RequestValidationHandler.handle"
    /\ LET v == validateRequest(request)
       IN /\ request' = [request EXCEPT !.body = v.body]
          /\ IF v.ok
             THEN /\ Delegate("RequestValidationHandler")
                  /\ UNCHANGED <<response, error, outcome>>
             ELSE Throw("RequestValidationHandler", v.error)
    /\ trace' = Append(trace, Event("RequestValidationHandler", ""))
    /\ UNCHANGED <<suppliedHook, attempt, nextRequest, delays, originalBody, everyAttemptRetryable>>
    /\ UNCHANGED <<firstRequest, handlers, calls, heap, config, bank>>

\* RetryHandler.handle: entering sets attempt = 1; the loop test
\* `attempt <= maxAttempts` either runs the body, which delegates, or falls out
\* of the loop to `throw new Error('Error retrying request.')`
RetryLoop ==
    /\ pc \in {"RetryHandler.handle", "RetryHandler.loop"}
    /\ LET a == IF pc = "RetryHandler.handle" THEN 1 ELSE attempt
       IN /\ attempt' = a
          /\ IF a <= maxAttemptsOf(request)
             THEN /\ Delegate("RetryHandler")
                  /\ trace' = Append(trace, Event("RetryHandler", ""))
                  /\ UNCHANGED <<response, error, outcome>>
             ELSE /\ Throw("RetryHandler", MkError("Error", "", -1, "Error retrying request.", 0))
                  /\ UNCHANGED trace
    /\ UNCHANGED <<request, suppliedHook, nextRequest, delays, originalBody, everyAttemptRetryable>>
    /\ UNCHANGED <<firstRequest, handlers, calls, heap, config, bank>>

\* HookHandler.handle running beforeRequest on the first attempt only and
\* reusing the Request it returned on retries
HookBeforeFirstAttemptOnly ==
    /\ pc = "HookHandler.handle"
    /\ IF nextRequest = Undefined
       THEN /\ nextRequest' = Some(AdapterBeforeRequest(HookHandlerHook(suppliedHook), request))
            /\ trace' = Append(trace, Event("beforeRequest", HookHandlerHook(suppliedHook)))
       ELSE UNCHANGED <<nextRequest, trace>>
    /\ pc' = NextHandler("HookHandler") \o ".handle"
    /\ UNCHANGED <<request, suppliedHook, attempt, response, error, outcome, delays,
                   originalBody, everyAttemptRetryable>>
    /\ UNCHANGED <<firstRequest, handlers, calls, heap, config, bank>>

\* HookHandler.handle up to `await this.next.handle(nextRequest)`
HookBefore ==
    /\ pc = "HookHandler.handle"
    /\ nextRequest' = Some(AdapterBeforeRequest(HookHandlerHook(suppliedHook), request))
    /\ trace' = Append(trace, Event("beforeRequest", HookHandlerHook(suppliedHook)))
    /\ Delegate("HookHandler")
    /\ UNCHANGED <<request, suppliedHook, attempt, response, error, outcome, delays,
                   originalBody, everyAttemptRetryable>>
    /\ UNCHANGED <<firstRequest, handlers, calls, heap, config, bank>>

\* TerminatingHandler.handle -> RequestFetchAdapter.send: fetch resolves with a
\* response of any status, or rejects (network failure, timeout) with a TypeError
Terminating ==
    /\ pc = "TerminatingHandler.handle"
    /\ trace' = Append(trace, Event("send", ""))
    /\ \/ /\ \E st \in Statuses, h \in ResponseHeaders, b \in ResponseBodies :
                Return("TerminatingHandler", MkResponse(st, h, b, attempt))
          /\ UNCHANGED everyAttemptRetryable
       \/ /\ Throw("TerminatingHandler", MkError("TypeError", "", -1, "fetch failed", attempt))
          /\ everyAttemptRetryable' = FALSE
    /\ UNCHANGED <<request, suppliedHook, attempt, nextRequest, delays, originalBody>>
    /\ UNCHANGED <<firstRequest, handlers, calls, heap, config, bank>>

\* HookHandler.handle after the transport answered: what it returns or throws
hookHandleResult(req, nextReq, hook, resp) ==
    LET contentType == getContentTypeDefinition(resp.header)
        i == FirstMatch(req.errors, contentType, resp.status)
    IN IF resp.status < 400
       THEN [ok |-> TRUE, response |-> AdapterAfterResponse(hook, nextReq, resp), error |-> NoError]
       ELSE IF i # 0
       THEN IF JsonParses(resp.body)
            THEN [ok |-> FALSE, response |-> NoResponse,
                  error |-> MkError("ThrowableError", req.errors[i].error, resp.status,
                                    MessageOf(resp.body), resp.attempt)]
            ELSE [ok |-> FALSE, response |-> NoResponse,
                  error |-> MkError("SyntaxError", "", -1, "Unexpected token", resp.attempt)]
       ELSE [ok |-> FALSE, response |-> NoResponse,
             error |-> MkError("HttpError", "", resp.status, "Unexpected response body for error status.",
                               resp.attempt)]

\* HookHandler.handle from the transport's answer on: a response below 400 goes
\* through afterResponse and is returned; a failure response becomes a thrown error
HookAfter ==
    /\ pc = "HookHandler.after"
    /\ LET r == hookHandleResult(request, nextRequest[1], HookHandlerHook(suppliedHook), response)
       IN IF r.ok
          THEN /\ Return("HookHandler", r.response)
               /\ trace' = Append(trace, Event("afterResponse", HookHandlerHook(suppliedHook)))
               /\ everyAttemptRetryable' = FALSE
          ELSE /\ Throw("HookHandler", r.error)
               /\ trace' = Append(trace, Event("throw", ""))
               /\ everyAttemptRetryable' = (everyAttemptRetryable /\ RetryableFailure(r.error, request))
    /\ UNCHANGED <<request, suppliedHook, attempt, nextRequest, delays, originalBody>>
    /\ UNCHANGED <<firstRequest, handlers, calls, heap, config, bank>>

\* RetryHandler.handle, catch block: rethrow, or compute the delay and await it
RetryCatch ==
    /\ pc = "RetryHandler.catch"
    /\ IF rethrows(error, request, attempt)
       THEN /\ Throw("RetryHandler", error)
            /\ UNCHANGED <<delays, trace>>
       ELSE /\ \E rnd \in 0..(RandomDen - 1) :
                  delays' = Append(delays, calculateDelay(attempt, request, rnd))
            /\ trace' = Append(trace, Event("delay", ""))
            /\ pc' = "RetryHandler.delay"
            /\ UNCHANGED <<response, error, outcome>>
    /\ UNCHANGED <<request, suppliedHook, attempt, nextRequest, originalBody, everyAttemptRetryable>>
    /\ UNCHANGED <<firstRequest, handlers, calls, heap, config, bank>>

\* RetryHandler.delay resolves and the for loop increments `attempt`
Delay ==
    /\ pc = "RetryHandler.delay"
    /\ attempt' = attempt + 1
    /\ error' = NoError
    /\ pc' = "RetryHandler.loop"
    /\ UNCHANGED <<request, suppliedHook, nextRequest, response, outcome, delays, trace,
                   originalBody, everyAttemptRetryable>>
    /\ UNCHANGED <<firstRequest, handlers, calls, heap, config, bank>>

\* ResponseValidationHandler.handle after the inner chain returned:
\* decodeBodyFromFullResponse, whose result it returns or whose error it throws
ResponseValidation ==
    /\ pc = "ResponseValidationHandler.decode"
    /\ LET d == decodeBodyFromFullResponse(request, response)
       IN IF d.ok
          THEN Return("ResponseValidationHandler", d.response)
          ELSE Throw("ResponseValidationHandler", d.error)
    /\ trace' = Append(trace, Event("decode", ""))
    /\ UNCHANGED <<request, suppliedHook, attempt, nextRequest, delays, originalBody,
                   everyAttemptRetryable>>
    /\ UNCHANGED <<firstRequest, handlers, calls, heap, config, bank>>

Next ==
    \/ CallChain
    \/ ResponseValidationEnter
    \/ RequestValidation
    \/ RetryLoop
    \/ HookBefore
    \/ Terminating
    \/ HookAfter
    \/ RetryCatch
    \/ Delay
    \/ ResponseValidation

Spec == Init /\ [][Next]_vars

----------------------------------------------------------------------------
(* Properties of the retry loop *)

\* number of steps of the given kind the call has executed
Count(op) == Cardinality({i \in DOMAIN trace : trace[i].op = op})

\* transport attempts made so far
Sends == Count("send")

\* C1: a call whose every downstream attempt failed with an HttpError the retry
\* policy covers (status in the retry set, method in the retryable methods) has,
\* once it settles, invoked the next handler exactly `attempts` times
\* (retry.attempts, 3 without a retry configuration) and raises the HttpError of
\* the last attempt.
C1_ExhaustionRaisesLastError ==
    (pc = "done" /\ Sends >= 1 /\ everyAttemptRetryable) =>
        /\ Count("RetryHandler") = maxAttemptsOf(request)
        /\ Sends = Nullish(RetryField(request, "attempts"), 3)
        /\ outcome = "raised"
        /\ error.class = "HttpError"
        /\ error.attempt = Sends
        /\ InRetrySet(request, error.status)

\* C1 witness: no retry configuration, a transport that answered 500 three times
C1_Witness ==
    /\ pc = "done"
    /\ everyAttemptRetryable
    /\ request.config.retry = Undefined
    /\ Sends = 3
    /\ error.class = "HttpError" /\ error.status = 500 /\ error.attempt = 3

\* C2: when an attempt fails with an HttpError whose status is not in the retry
\* set, or whose method is not retryable, RetryHandler rethrows that very error
\* at once: no delay is computed or awaited, no further attempt is made, and if
\* it was the first attempt the call has made exactly one attempt.
C2_NonRetryableShortCircuit ==
    [][(pc = "RetryHandler.catch" /\ error.class = "HttpError" /\ ~RetryableFailure(error, request)) =>
          /\ pc' = "done"
          /\ outcome' = "raised"
          /\ error' = error
          /\ delays' = delays
          /\ trace' = trace
          /\ Sends = error.attempt
          /\ (error.attempt = 1 => Sends = 1 /\ delays = <<>>)]_vars

\* C2 witness: a 404 on a GET with the default retry configuration, raised
\* after exactly one attempt
C2_Witness ==
    /\ pc = "done" /\ outcome = "raised"
    /\ request.method = "GET"
    /\ request.config.retry = Some(BuilderDefaultRetry)
    /\ error.class = "HttpError" /\ error.status = 404
    /\ Sends = 1 /\ delays = <<>>

\* the positions of trace at which an attempt starts
AttemptStarts == {i \in DOMAIN trace : trace[i].op = "RetryHandler"}

\* the delays computed and awaited between positions i and j of trace
DelaysBetween(i, j) == {k \in DOMAIN trace : i < k /\ k < j /\ trace[k].op = "delay"}

\* C29: between two consecutive attempts of a call exactly one delay is
\* awaited; while it is awaited nothing else of the call runs, and the next
\* attempt starts only after it has completed; no delay is awaited after the
\* attempt numbered `attempts`; so the call makes at most `attempts` attempts
\* and awaits at most `attempts` - 1 delays (none when `attempts` is below 1).
C29_OneDelayBetweenAttempts ==
    /\ [](/\ \A i, j \in AttemptStarts :
                (i < j /\ \A k \in AttemptStarts : ~(i < k /\ k < j)) =>
                    Cardinality(DelaysBetween(i, j)) = 1
          /\ Count("delay") = Len(delays)
          /\ Count("RetryHandler") <= Max(maxAttemptsOf(request), 0)
          /\ Count("delay") <= Max(maxAttemptsOf(request) - 1, 0)
          /\ pc = "RetryHandler.delay" => attempt < maxAttemptsOf(request)
          /\ Count("delay") = IF pc \in {"RetryHandler.delay", "RetryHandler.loop"}
                              THEN Count("RetryHandler")
                              ELSE Max(Count("RetryHandler") - 1, 0))
    /\ [][/\ pc = "RetryHandler.delay" =>
                /\ pc' = "RetryHandler.loop"
                /\ attempt' = attempt + 1
                /\ trace' = trace /\ delays' = delays /\ outcome' = outcome
          /\ Count("RetryHandler")' > Count("RetryHandler") =>
                /\ pc \in {"RetryHandler.handle", "RetryHandler.loop"}
                /\ attempt' = Count("RetryHandler")'
                /\ Len(delays) = attempt' - 1]_vars

\* C29 witness: a call settled after three attempts and the two delays between them
C29_Witness ==
    /\ pc = "done"
    /\ maxAttemptsOf(request) = 3
    /\ Count("RetryHandler") = 3
    /\ Len(delays) = 2
    /\ \E i, j \in DOMAIN trace :
          /\ i < j /\ trace[i].op = "delay" /\ trace[j].op = "delay"
          /\ \E k \in AttemptStarts : i < k /\ k < j
          /\ \E k \in AttemptStarts : j < k

\* C35: when retry.statusCodesToRetry is configured, a failed attempt that is
\* not the last one, failed with an HttpError and was made with a retryable
\* method is retried if and only if its status is in the configured list: a
\* listed 4xx is followed by a delay, and a 5xx, 408 or 429 that is not listed is
\* rethrown at once.
C35_ConfiguredStatusesReplaceDefault ==
    [][(/\ pc = "RetryHandler.catch"
        /\ error.class = "HttpError"
        /\ request.config.retry # Undefined
        /\ request.config.retry[1].statusCodesToRetry # Undefined
        /\ MethodRetried(request)
        /\ attempt < request.config.retry[1].attempts) =>
          LET listed == \E i \in DOMAIN request.config.retry[1].statusCodesToRetry[1] :
                            request.config.retry[1].statusCodesToRetry[1][i] = error.status
          IN /\ listed => /\ pc' = "RetryHandler.delay"
                          /\ Len(delays') = Len(delays) + 1
                          /\ outcome' = "pending"
             /\ ~listed => /\ pc' = "done"
                           /\ outcome' = "raised"
                           /\ error' = error
                           /\ delays' = delays]_vars

\* C35 witness: statusCodesToRetry = [404, 503]; the first attempt answered 404
\* and the handler is waiting before the second one
C35_Witness ==
    /\ pc = "RetryHandler.delay"
    /\ request.config.retry # Undefined
    /\ request.config.retry[1].statusCodesToRetry = Some(<<404, 503>>)
    /\ error.class = "HttpError" /\ error.status = 404
    /\ attempt = 1 /\ Sends = 1 /\ Len(delays) = 1

\* C36: with retry.attempts configured as 0 or a negative number the request is
\* never sent: RetryHandler.handle never invokes the next handler and the call
\* settles raising the generic Error 'Error retrying request.'; with attempts of
\* 1 or more (or none configured) a call that reached RetryHandler.handle has
\* invoked the next handler at least once.
C36_NoAttemptWhenAttemptsBelowOne ==
    LET attempts == RetryField(request, "attempts")
        entered == attempt >= 1
    IN /\ (attempts # Undefined /\ attempts[1] <= 0) =>
              /\ Sends = 0
              /\ Count("RetryHandler") = 0
              /\ delays = <<>>
              /\ (pc = "done" /\ entered) =>
                    /\ outcome = "raised"
                    /\ error.class = "Error"
                    /\ error.message = "Error retrying request."
       /\ (attempts = Undefined \/ (attempts # Undefined /\ attempts[1] >= 1)) =>
              ((pc = "done" /\ entered) => Count("RetryHandler") >= 1 /\ Sends >= 1)

\* C36 witness: attempts = 0, the call settled with 'Error retrying request.'
\* and nothing was sent
C36_Witness ==
    /\ pc = "done"
    /\ RetryField(request, "attempts") = Some(0)
    /\ attempt = 1
    /\ error.message = "Error retrying request."
    /\ Sends = 0

----------------------------------------------------------------------------
(* Properties of the chain order and of the hook layer *)

\* the step before step i of the trace
Prev(i) == IF i = 1 THEN "call" ELSE trace[i - 1].op

\* the body RequestValidationHandler leaves on the request for a valid input
SerializedBody ==
    IF request.requestContentType = "json" THEN JSONstringify(originalBody) ELSE originalBody

\* C3: the handlers run in the order ResponseValidation, RequestValidation,
\* Retry, Hook (beforeRequest), Terminating (send) on the way in and in the
\* reverse order on the way out: request validation runs exactly once, right
\* after ResponseValidationHandler was entered and before any send, and has
\* serialized the body by the first send; every send directly follows the
\* beforeRequest of its attempt, which directly follows an iteration of the
\* retry loop; decoding happens at most once, as the last step, directly after
\* the afterResponse of the last attempt, whose response has a status below 400.
C3_ChainOrder ==
    /\ \A i \in DOMAIN trace :
          CASE trace[i].op = "ResponseValidationHandler" -> i = 1
            [] trace[i].op = "RequestValidationHandler" -> i = 2 /\ Prev(i) = "ResponseValidationHandler"
            [] trace[i].op = "RetryHandler" -> Prev(i) \in {"RequestValidationHandler", "delay"}
            [] trace[i].op = "beforeRequest" -> Prev(i) = "RetryHandler"
            [] trace[i].op = "send" -> Prev(i) = "beforeRequest"
            [] trace[i].op = "afterResponse" -> Prev(i) = "send"
            [] trace[i].op = "throw" -> Prev(i) = "send"
            [] trace[i].op = "delay" -> Prev(i) = "throw"
            [] trace[i].op = "decode" -> Prev(i) = "afterResponse" /\ i = Len(trace)
            [] OTHER -> FALSE
    /\ (Sends >= 1 => Count("RequestValidationHandler") = 1 /\ request.body = SerializedBody)
    /\ Count("decode") <= 1
    /\ (pc = "ResponseValidationHandler.decode" =>
            response.status < 400 /\ response.attempt = Sends /\ Prev(Len(trace) + 1) = "afterResponse")

\* C3 witness: a call that was retried, then answered below 400 and decoded
C3_Witness ==
    /\ pc = "done" /\ outcome = "returned"
    /\ Sends = 2
    /\ Count("decode") = 1
    /\ response.data # Undefined

\* C4: every retry re-runs the hook: beforeRequest has run once per transport
\* attempt (once more while the attempt it prepared is still to be sent), every
\* send directly follows a beforeRequest, and every iteration of the retry
\* loop has run beforeRequest.
C4_HookRunsEveryAttempt ==
    /\ \A i \in DOMAIN trace : trace[i].op = "send" => i > 1 /\ trace[i - 1].op = "beforeRequest"
    /\ Count("beforeRequest") = IF pc = "TerminatingHandler.handle" THEN Sends + 1 ELSE Sends
    /\ Count("RetryHandler") = IF pc = "HookHandler.handle" THEN Count("beforeRequest") + 1
                               ELSE Count("beforeRequest")

\* C4 witness: a settled call that made three transport attempts
C4_Witness == pc = "done" /\ Sends = 3 /\ Count("beforeRequest") = 3

\* C5: HookHandler invokes the hook supplied to the HttpClient constructor: the
\* beforeRequest and afterResponse that run are the supplied hook's, the
\* Request handed to the transport is the one the supplied hook's beforeRequest
\* returned, and the response handed back up is the one its afterResponse returned.
C5_SuppliedHookIsInvoked ==
    /\ \A i \in DOMAIN trace :
          trace[i].op \in {"beforeRequest", "afterResponse"} => trace[i].hook = suppliedHook
    /\ (pc = "TerminatingHandler.handle" =>
            nextRequest = Some(AdapterBeforeRequest(suppliedHook, request)))
    /\ (pc = "ResponseValidationHandler.decode" => response.afterResponseBy = suppliedHook)

\* the first ErrorDefinition of the request matching the response, 0 when none does
MatchingErrorDefinition ==
    IF \E i \in DOMAIN request.errors :
          /\ request.errors[i].contentType = getContentTypeDefinition(response.header)
          /\ request.errors[i].status = response.status
    THEN CHOOSE i \in DOMAIN request.errors :
          /\ request.errors[i].contentType = getContentTypeDefinition(response.header)
          /\ request.errors[i].status = response.status
          /\ \A j \in 1..(i - 1) :
                ~(/\ request.errors[j].contentType = getContentTypeDefinition(response.header)
                  /\ request.errors[j].status = response.status)
    ELSE 0

\* C6: for a transport response with status >= 400 HookHandler.handle throws and
\* never runs afterResponse; when an ErrorDefinition matches the response's
\* (content-type category, status) it throws that typed error, built from the
\* body's message (or '') with the response metadata attached, otherwise a
\* generic HttpError carrying the response metadata.
C6_FailureResponseRaisesTypedOrGeneric ==
    [][(pc = "HookHandler.after" /\ response.status >= 400) =>
          /\ error' # NoError
          /\ response' = NoResponse
          /\ Count("afterResponse")' = Count("afterResponse")
          /\ error'.status = response.status
          /\ IF MatchingErrorDefinition # 0
             THEN /\ error'.class = "ThrowableError"
                  /\ error'.ctor = request.errors[MatchingErrorDefinition].error
                  /\ error'.message = MessageOf(response.body)
             ELSE error'.class = "HttpError"]_vars

\* C7: a typed domain error counts as an HTTP error for the retry policy: when
\* the call settles with a typed error whose status is in the retry set and
\* whose method is retryable, the retries were exhausted first.
C7_TypedErrorIsRetried ==
    (pc = "done" /\ error.class = "ThrowableError"
        /\ InRetrySet(request, error.status) /\ MethodRetried(request)) =>
        Sends = maxAttemptsOf(request)

\* C8: an error thrown downstream of RetryHandler that is not an HttpError is
\* never retried: RetryHandler rethrows that very error at once, computing and
\* awaiting no delay and making no further attempt, and if it was the first
\* attempt the call has made exactly one attempt.
C8_NonHttpErrorNeverRetried ==
    [][(pc = "RetryHandler.catch" /\ error.class # "HttpError") =>
          /\ pc' = "done"
          /\ outcome' = "raised"
          /\ error' = error
          /\ delays' = delays
          /\ trace' = trace
          /\ Sends = error.attempt
          /\ (error.attempt = 1 => Sends = 1 /\ delays = <<>>)]_vars

\* C8 witness: a network failure on the first attempt, raised after one attempt
\* although three were allowed
C8_Witness ==
    /\ pc = "done" /\ outcome = "raised"
    /\ error.class = "TypeError"
    /\ maxAttemptsOf(request) = 3
    /\ Sends = 1 /\ delays = <<>>

\* the configured backoff parameters, with RequestBuilder's defaults
ConfiguredDelayMs == Nullish(RetryField(request, "delayMs"), 150)

ConfiguredBackoffFactor == Nullish(RetryField(request, "backoffFactor"), 2)

ConfiguredMaxDelayMs == Nullish(RetryField(request, "maxDelayMs"), 5000)

ConfiguredJitterMs == Nullish(RetryField(request, "jitterMs"), 50)

\* every computed delay has the documented form, the i-th delay being the one
\* for attemptIndex i
DelaysHaveBackoffForm ==
    \A i \in DOMAIN delays :
        \E j \in 0..ConfiguredJitterMs :
            delays[i] = Min(ConfiguredMaxDelayMs, ConfiguredDelayMs * Pow(ConfiguredBackoffFactor, i - 1)) + j

\* a settled call with the backoff example's configuration whose every attempt
\* failed with a retryable HttpError (a persistently failing 503 GET)
BackoffExampleExhausted ==
    /\ pc = "done" /\ Sends >= 1 /\ everyAttemptRetryable
    /\ request.config.retry = Some(BackoffExampleRetry)

\* C9 as stated: the delays have the backoff form, and in the backoff example
\* the computed delays are [100, 200, 400, 500] over exactly 4 attempts.
C9_Original ==
    /\ DelaysHaveBackoffForm
    /\ (BackoffExampleExhausted => delays = <<100, 200, 400, 500>> /\ Sends = 4)

\* C9 amended: the delays have the backoff form; a delay is computed only
\* between attempts, so at most attempts - 1 of them; in the backoff example the
\* computed delays are [100, 200, 400] over exactly 4 attempts.
C9_DelaySequence ==
    /\ DelaysHaveBackoffForm
    /\ (delays # <<>> => Len(delays) <= maxAttemptsOf(request) - 1)
    /\ (pc = "done" => Len(delays) = IF Sends = 0 THEN 0 ELSE Sends - 1)
    /\ (BackoffExampleExhausted => delays = <<100, 200, 400>> /\ Sends = 4)

\* C9 witness: the backoff example, exhausted
C9_Witness == BackoffExampleExhausted /\ request.method = "GET" /\ error.status = 503 /\ Len(delays) = 3

\* C10: when a JSON request body fails requestSchema validation the call is
\* rejected with a ValidationError, request.body is still the caller's input,
\* and nothing below RequestValidationHandler has run: no retry iteration, no
\* hook, no delay, no send.
C10_InvalidBodyStopsAtValidation ==
    (/\ pc \notin {"idle", "ResponseValidationHandler.handle", "RequestValidationHandler.handle"}
     /\ request.requestContentType = "json"
     /\ ~SchemaAccepts(request.requestSchema, originalBody)) =>
        /\ pc = "done" /\ outcome = "raised"
        /\ error.class = "ValidationError"
        /\ request.body = originalBody
        /\ \A i \in DOMAIN trace :
              trace[i].op \in {"ResponseValidationHandler", "RequestValidationHandler"}

\* C10 witness: a rejected object body, raised without any transport attempt
C10_Witness ==
    /\ pc = "done" /\ outcome = "raised"
    /\ error.class = "ValidationError"
    /\ originalBody = "obj:bad" /\ request.body = "obj:bad"
    /\ Sends = 0

----------------------------------------------------------------------------
(* Concurrent calls through one HttpClient *)

\* the two calls in flight
TwoCalls == {1, 2}

\* what fetch can do with an attempt: resolve with a response, or reject
MkAnswer(rejects, status) == [rejects |-> rejects, status |-> status]

Answers == {MkAnswer(FALSE, 200), MkAnswer(FALSE, 503), MkAnswer(TRUE, 0)}

\* the Request objects of the concurrent calls
ConcurrentRequests ==
    {r \in Requests :
        /\ r.method = "GET"
        /\ r.requestContentType = "json" /\ r.requestSchema = "object"
        /\ r.body \in {"obj:ok", "obj:bad"}
        /\ r.config.retry \in {Some(AttemptsOnlyRetry(MaxAttempts)), Some(RestrictedRetry)}
        /\ r.config.validation = Undefined
        /\ r.errors = <<>>
        /\ Len(r.responses) = 1}

\* the frame of one call: what the async functions of the chain keep in their
\* local variables and hand to each other; answers and randoms record what the
\* environment gave this call (fetch outcomes, Math.random values), sends
\* counts its transport attempts, entered holds the handlers whose handle ran
NewCall(req) ==
    [request |-> req, original |-> req, pc |-> "idle", attempt |-> 0, nextRequest |-> Undefined,
     response |-> NoResponse, error |-> NoError, outcome |-> "pending", delays |-> <<>>,
     sends |-> 0, answers |-> <<>>, randoms |-> <<>>, entered |-> {}]

\* a handler step's effect: the call's frame and the handlers' instance fields
Effect(c, hs) == [call |-> c, handlers |-> hs]

\* this.next.handle(request) in handler h: control passes to the handler that
\* h's next field names
delegate(c, hs, h) == [c EXCEPT !.pc = hs[h].next[1] \o ".handle"]

\* the error of the `if (!this.next)` guard of handler h
NoNextHandler(h) ==
    MkError("Error", "", -1,
            CASE h = "RequestValidationHandler" -> "No next handler set in ContentTypeHandler."
              [] h = "RetryHandler" -> "No next handler set in retry handler."
              [] OTHER -> "No next handler set in hook handler.",
            0)

\* what evaluating undefined.handle(...) throws
UndefinedDereference ==
    MkError("TypeError", "", -1, "Cannot read properties of undefined (reading 'handle')", 0)

\* handler h returns resp to its caller
returned(c, h, resp) ==
    [c EXCEPT !.response = resp, !.error = NoError, !.pc = ReturnTo(h),
              !.outcome = IF ReturnTo(h) = "done" THEN "returned" ELSE @]

\* handler h throws err to its caller
thrown(c, h, err) ==
    [c EXCEPT !.error = err, !.response = NoResponse, !.pc = ThrowTo(h),
              !.outcome = IF ThrowTo(h) = "done" THEN "raised" ELSE @]

\* ResponseValidationHandler.handle: `this.next!.handle(request)` with no guard,
\* then decode what came back
responseValidationHandle(c, hs) ==
    IF c.pc = "ResponseValidationHandler.handle"
    THEN IF hs["ResponseValidationHandler"].next = Undefined
         THEN Effect(thrown(c, "ResponseValidationHandler", UndefinedDereference), hs)
         ELSE Effect(delegate(c, hs, "ResponseValidationHandler"), hs)
    ELSE LET d == decodeBodyFromFullResponse(c.request, c.response)
         IN IF d.ok
            THEN Effect(returned(c, "ResponseValidationHandler", d.response), hs)
            ELSE Effect(thrown(c, "ResponseValidationHandler", d.error), hs)

\* RequestValidationHandler.handle: the guard on this.next, then validateRequest
\* writes request.body, then delegate
requestValidationHandle(c, hs) ==
    LET v == validateRequest(c.request)
        validated == [c EXCEPT !.request.body = v.body]
    IN IF hs["RequestValidationHandler"].next = Undefined
       THEN Effect(thrown(c, "RequestValidationHandler", NoNextHandler("RequestValidationHandler")), hs)
       ELSE IF v.ok
       THEN Effect(delegate(validated, hs, "RequestValidationHandler"), hs)
       ELSE Effect(thrown(validated, "RequestValidationHandler", v.error), hs)

\* the attempt counter kept in an instance field of the RetryHandler
attemptOnHandler(hs) ==
    IF "attempt" \in DOMAIN hs["RetryHandler"] THEN hs["RetryHandler"].attempt ELSE 0

\* the handlers after this.attempt = a in the RetryHandler
withAttemptOnHandler(hs, a) ==
    [hs EXCEPT !["RetryHandler"] =
        [f \in (DOMAIN hs["RetryHandler"]) \cup {"attempt"} |->
            IF f = "attempt" THEN a ELSE hs["RetryHandler"][f]]]

\* RetryHandler.handle with the attempt counter kept in an instance field of
\* the handler instead of a local variable
retryHandleAttemptOnHandler(c, hs, rnd) ==
    IF c.pc = "RetryHandler.handle" /\ hs["RetryHandler"].next = Undefined
    THEN Effect(thrown(c, "RetryHandler", NoNextHandler("RetryHandler")), hs)
    ELSE IF c.pc \in {"RetryHandler.handle", "RetryHandler.loop"}
    THEN LET a == IF c.pc = "RetryHandler.handle" THEN 1 ELSE attemptOnHandler(hs)
         IN IF a <= maxAttemptsOf(c.request)
            THEN Effect(delegate(c, hs, "RetryHandler"), withAttemptOnHandler(hs, a))
            ELSE Effect(thrown(c, "RetryHandler", MkError("Error", "", -1, "Error retrying request.", 0)),
                        withAttemptOnHandler(hs, a))
    ELSE IF c.pc = "RetryHandler.catch"
    THEN IF rethrows(c.error, c.request, attemptOnHandler(hs))
         THEN Effect(thrown(c, "RetryHandler", c.error), hs)
         ELSE Effect([c EXCEPT !.delays = Append(@, calculateDelay(attemptOnHandler(hs), c.request, rnd)),
                               !.randoms = Append(@, rnd),
                               !.pc = "RetryHandler.delay"], hs)
    ELSE Effect([c EXCEPT !.error = NoError, !.pc = "RetryHandler.loop"],
                withAttemptOnHandler(hs, attemptOnHandler(hs) + 1))

\* RetryHandler.handle: the guard on this.next, the loop test, the catch block
\* and the awaited delay; attempt and the computed delay are local variables of
\* the invocation
retryHandle(c, hs, rnd) ==
    IF c.pc = "RetryHandler.handle" /\ hs["RetryHandler"].next = Undefined
    THEN Effect(thrown(c, "RetryHandler", NoNextHandler("RetryHandler")), hs)
    ELSE IF c.pc \in {"RetryHandler.handle", "RetryHandler.loop"}
    THEN LET a == IF c.pc = "RetryHandler.handle" THEN 1 ELSE c.attempt
             entered == [c EXCEPT !.attempt = a]
         IN IF a <= maxAttemptsOf(c.request)
            THEN Effect(delegate(entered, hs, "RetryHandler"), hs)
            ELSE Effect(thrown(entered, "RetryHandler",
                               MkError("Error", "", -1, "Error retrying request.", 0)), hs)
    ELSE IF c.pc = "RetryHandler.catch"
    THEN IF rethrows(c.error, c.request, c.attempt)
         THEN Effect(thrown(c, "RetryHandler", c.error), hs)
         ELSE Effect([c EXCEPT !.delays = Append(@, calculateDelay(c.attempt, c.request, rnd)),
                               !.randoms = Append(@, rnd),
                               !.pc = "RetryHandler.delay"], hs)
    ELSE Effect([c EXCEPT !.attempt = @ + 1, !.error = NoError, !.pc = "RetryHandler.loop"], hs)

\* HookHandler.handle: the guard on this.next, beforeRequest on a fresh adapter
\* and delegate; after the transport answered, afterResponse or the error for a
\* failure status
hookHandle(c, hs) ==
    IF c.pc = "HookHandler.handle" /\ hs["HookHandler"].next = Undefined
    THEN Effect(thrown(c, "HookHandler", NoNextHandler("HookHandler")), hs)
    ELSE IF c.pc = "HookHandler.handle"
    THEN Effect(delegate([c EXCEPT !.nextRequest = Some(AdapterBeforeRequest(AdapterHook, c.request))],
                         hs, "HookHandler"), hs)
    ELSE LET r == hookHandleResult(c.request, c.nextRequest[1], AdapterHook, c.response)
         IN IF r.ok
            THEN Effect(returned(c, "HookHandler", r.response), hs)
            ELSE Effect(thrown(c, "HookHandler", r.error), hs)

\* TerminatingHandler.handle: the transport's answer to this attempt
terminatingHandle(c, hs, answer) ==
    LET sent == [c EXCEPT !.sends = @ + 1, !.answers = Append(@, answer)]
    IN IF answer.rejects
       THEN Effect(thrown(sent, "TerminatingHandler", MkError("TypeError", "", -1, "fetch failed", 0)), hs)
       ELSE Effect(returned(sent, "TerminatingHandler",
                            MkResponse(answer.status, "application/json", "{message:boom}", 0)), hs)

\* one step of a call through the chain, from where its frame stands
callStep(c, hs, answer, rnd) ==
    LET in == [c EXCEPT !.entered = @ \cup {h \in DOMAIN hs : c.pc = h \o ".handle"}]
    IN CASE c.pc = "idle" -> Effect([c EXCEPT !.pc = Chain[1] \o ".handle"], hs)
         [] c.pc \in {"ResponseValidationHandler.handle", "ResponseValidationHandler.decode"} ->
               responseValidationHandle(in, hs)
         [] c.pc = "RequestValidationHandler.handle" -> requestValidationHandle(in, hs)
         [] c.pc \in {"RetryHandler.handle", "RetryHandler.loop", "RetryHandler.catch", "RetryHandler.delay"} ->
               retryHandle(in, hs, rnd)
         [] c.pc \in {"HookHandler.handle", "HookHandler.after"} -> hookHandle(in, hs)
         [] c.pc = "TerminatingHandler.handle" -> terminatingHandle(in, hs, answer)
         [] OTHER -> Effect(c, hs)

\* the call run to its end with no other call in flight, given the answers and
\* random values the environment has for it
RECURSIVE runAlone(_, _, _, _)
runAlone(c, hs, answers, randoms) ==
    IF c.pc = "done" THEN c
    ELSE LET answer == IF c.sends < Len(answers) THEN answers[c.sends + 1] ELSE MkAnswer(TRUE, 0)
             rnd == IF Len(c.randoms) < Len(randoms) THEN randoms[Len(c.randoms) + 1] ELSE 0
             e == callStep(c, hs, answer, rnd)
         IN runAlone(e.call, e.handlers, answers, randoms)

\* no single call is followed while two are in flight
NoRequest == [method |-> "none"]

ConcurrentInit ==
    /\ calls \in [TwoCalls -> {NewCall(r) : r \in ConcurrentRequests}]
    /\ handlers = LinkedHandlers
    /\ request = NoRequest
    /\ firstRequest = NoRequest
    /\ suppliedHook = "CustomHook"
    /\ pc = "idle"
    /\ attempt = 0
    /\ nextRequest = Undefined
    /\ response = NoResponse
    /\ error = NoError
    /\ outcome = "pending"
    /\ delays = <<>>
    /\ trace = <<>>
    /\ originalBody = "undefined"
    /\ everyAttemptRetryable = TRUE
    /\ heap = <<>>
    /\ config = <<>>
    /\ bank = <<>>

\* call i runs from one suspension point to the next
Advance(i, answer, rnd) ==
    /\ LET e == callStep(calls[i], handlers, answer, rnd)
       IN /\ calls' = [calls EXCEPT ![i] = e.call]
          /\ handlers' = e.handlers
    /\ UNCHANGED <<request, suppliedHook, pc, attempt, nextRequest, response, error, outcome, delays,
                   trace, originalBody, everyAttemptRetryable, firstRequest, heap, config, bank>>

\* a call is resumed and runs synchronous code of the chain
Resume ==
    \E i \in DOMAIN calls :
        /\ calls[i].pc \notin {"done", "TerminatingHandler.handle", "RetryHandler.catch"}
        /\ Advance(i, MkAnswer(TRUE, 0), 0)

\* the transport settles an attempt of a call
TransportSettles ==
    \E i \in DOMAIN calls, answer \in Answers :
        /\ calls[i].pc = "TerminatingHandler.handle"
        /\ Advance(i, answer, 0)

\* the catch block of a call's retry loop runs; calculateDelay draws Math.random
RetryCatches ==
    \E i \in DOMAIN calls, rnd \in 0..(RandomDen - 1) :
        /\ calls[i].pc = "RetryHandler.catch"
        /\ Advance(i, MkAnswer(TRUE, 0), rnd)

NextConcurrent ==
    \/ Resume
    \/ TransportSettles
    \/ RetryCatches

SpecConcurrent == ConcurrentInit /\ [][NextConcurrent]_vars

\* C11: two calls in flight through the same HttpClient do not interfere: under
\* every interleaving, a call that has settled made the attempts, computed the
\* delays and ended with the response or error it has when run alone against
\* the same transport answers and random values, and no instance field of a
\* handler was written.
C11_ConcurrentCallsDoNotInterfere ==
    /\ handlers = LinkedHandlers
    /\ \A i \in DOMAIN calls :
          calls[i].pc = "done" =>
              LET alone == runAlone(NewCall(calls[i].original), LinkedHandlers,
                                    calls[i].answers, calls[i].randoms)
              IN /\ calls[i].sends = alone.sends
                 /\ calls[i].delays = alone.delays
                 /\ calls[i].outcome = alone.outcome
                 /\ calls[i].response = alone.response
                 /\ calls[i].error = alone.error

\* both calls have retried and settled, one with an error and one with a response
C11_Witness ==
    /\ DOMAIN calls = TwoCalls
    /\ \A i \in TwoCalls : calls[i].pc = "done" /\ calls[i].sends >= 2 /\ Len(calls[i].delays) >= 1
    /\ calls[1].outcome = "raised" /\ calls[2].outcome = "returned"

----------------------------------------------------------------------------
(* A chain whose last handler has no next *)

\* the handlers that delegate to this.next
DelegatingHandlers ==
    {"ResponseValidationHandler", "RequestValidationHandler", "RetryHandler", "HookHandler"}

\* the instance fields after addHandler was called for the handlers up to h
\* only: h is the last handler of the chain and its next was never set
LinkedUpTo(h) ==
    [g \in DOMAIN LinkedHandlers |->
        IF PositionOf(g) >= PositionOf(h)
        THEN [LinkedHandlers[g] EXCEPT !.next = Undefined]
        ELSE LinkedHandlers[g]]

\* the last handler of the chain: the first one without a next
LastHandler == Chain[CHOOSE k \in 1..Len(Chain) :
                        /\ handlers[Chain[k]].next = Undefined
                        /\ \A j \in 1..(k - 1) : handlers[Chain[j]].next # Undefined]

UnlinkedInit ==
    /\ \E h \in DelegatingHandlers : handlers = LinkedUpTo(h)
    /\ \E r \in Requests : calls = <<NewCall(r)>>
    /\ request = NoRequest
    /\ firstRequest = NoRequest
    /\ suppliedHook = "CustomHook"
    /\ pc = "idle"
    /\ attempt = 0
    /\ nextRequest = Undefined
    /\ response = NoResponse
    /\ error = NoError
    /\ outcome = "pending"
    /\ delays = <<>>
    /\ trace = <<>>
    /\ originalBody = "undefined"
    /\ everyAttemptRetryable = TRUE
    /\ heap = <<>>
    /\ config = <<>>
    /\ bank = <<>>

NextUnlinked == Resume

SpecUnlinked == UnlinkedInit /\ [][NextUnlinked]_vars

\* C12: handle on a delegating handler whose next is unset raises a
\* configuration error ('No next handler set ...') at once and before any side
\* effect of that handler: it has not serialized the request body, invoked a
\* hook, awaited a delay or called the transport.
C12_NoNextRaisesConfigurationError ==
    LET c == calls[1]
    IN LastHandler \in c.entered =>
          /\ c.error = NoNextHandler(LastHandler)
          /\ c.outcome # "returned"
          /\ c.sends = 0
          /\ c.delays = <<>>
          /\ c.nextRequest = Undefined
          /\ LastHandler \in {"ResponseValidationHandler", "RequestValidationHandler"} =>
                c.request.body = c.original.body

----------------------------------------------------------------------------
(* Serialization of parameters *)

\* Array.prototype.join
RECURSIVE Join(_, _)
Join(strs, sep) ==
    IF Len(strs) = 0 THEN ""
    ELSE IF Len(strs) = 1 THEN strs[1]
    ELSE strs[1] \o sep \o Join(Tail(strs), sep)

\* encodeURIComponent on the texts of the model: only the blank is escaped
encodeURIComponent(str) == IF str = "a b" THEN "a%20b" ELSE str

\* the keys of a Map in its iteration order; the model iterates every Map in
\* one fixed order of its keys
RECURSIVE KeysOf(_)
KeysOf(keys) ==
    IF keys = {} THEN <<>>
    ELSE LET k == CHOOSE x \in keys : TRUE IN <<k>> \o KeysOf(keys \ {k})

\* `${val}` of the items of an array value
ItemTexts(value) == [i \in DOMAIN value.entries |-> value.entries[i][2]]

\* Object.entries(obj).map(([key, val]) => `${before}${key}${between}${val}`)
EntryTexts(value, before, between) ==
    [i \in DOMAIN value.entries |-> before \o value.entries[i][1] \o between \o value.entries[i][2]]

\* param.value === undefined
IsUndefined(value) == value.kind = "undefined"

\* `${value}` of a value that is neither an array nor an object
TextOf(value) ==
    CASE value.kind \in {"number", "numericString"} -> ToString(value.num)
      [] value.kind = "NaN" -> "NaN"
      [] value.kind = "undefined" -> "undefined"
      [] OTHER -> value.entries[1][2]

\* Serializer.serializePrimitive
serializePrimitive(param) ==
    LET v == TextOf(param.value)
    IN CASE param.style = "label" -> "." \o v
         [] param.style = "matrix" -> ";" \o param.key \o "=" \o v
         [] param.style = "form" -> encodeURIComponent(param.key) \o "=" \o encodeURIComponent(v)
         [] OTHER -> v

\* Serializer.serializeArrayExploded
serializeArrayExploded(param) ==
    LET items == ItemTexts(param.value)
    IN CASE param.style = "simple" -> Join(items, ",")
         [] param.style = "label" -> Join([i \in DOMAIN items |-> "." \o items[i]], "")
         [] param.style = "matrix" ->
               Join([i \in DOMAIN items |-> ";" \o param.key \o "=" \o items[i]], "")
         [] param.style \in {"form", "space_delimited", "pipe_delimited"} ->
               Join([i \in DOMAIN items |->
                        encodeURIComponent(param.key) \o "=" \o encodeURIComponent(items[i])], "&")
         [] OTHER -> Join(items, ",")

\* Serializer.serializeArray
serializeArray(param) ==
    LET items == ItemTexts(param.value)
    IN IF param.explode THEN serializeArrayExploded(param)
       ELSE CASE param.style = "simple" -> Join(items, ",")
              [] param.style = "label" -> "." \o Join(items, ",")
              [] param.style = "matrix" -> ";" \o param.key \o "=" \o Join(items, ",")
              [] param.style = "form" ->
                    encodeURIComponent(param.key) \o "=" \o encodeURIComponent(Join(items, ","))
              [] param.style = "space_delimited" -> param.key \o "=" \o Join(items, " ")
              [] param.style = "pipe_delimited" -> param.key \o "=" \o Join(items, "|")
              [] OTHER -> Join(items, ",")

\* Serializer.serializeObject
serializeObject(param) ==
    LET v == param.value
    IN CASE param.explode /\ param.style = "simple" -> Join(EntryTexts(v, "", "="), ",")
         [] param.explode /\ param.style = "label" -> Join(EntryTexts(v, ".", "="), "")
         [] param.explode /\ param.style = "matrix" -> Join(EntryTexts(v, ";", "="), "")
         [] param.explode /\ param.style = "form" -> Join(EntryTexts(v, "", "="), "&")
         [] ~param.explode /\ param.style = "simple" -> Join(EntryTexts(v, "", ","), ",")
         [] ~param.explode /\ param.style = "label" -> "." \o Join(EntryTexts(v, "", ","), ",")
         [] ~param.explode /\ param.style = "matrix" ->
               ";" \o param.key \o "=" \o Join(EntryTexts(v, "", ","), ",")
         [] ~param.explode /\ param.style = "form" -> Join(EntryTexts(v, "", "="), "&")
         [] param.style = "deep_object" ->
               Join([i \in DOMAIN v.entries |->
                        param.key \o "[" \o v.entries[i][1] \o "]=" \o v.entries[i][2]], "&")
         [] OTHER -> Join(EntryTexts(v, "", "="), "&")

\* Serializer.serializeValue
serializeValue(param) ==
    CASE param.value.kind = "array" -> serializeArray(param)
      [] param.value.kind = "object" -> serializeObject(param)
      [] OTHER -> serializePrimitive(param)

\* QuerySerializer.serialize pushing every parameter, whatever its value
QuerySerializeEveryParam(queryParams) ==
    LET keys == KeysOf(DOMAIN queryParams)
        query == [i \in DOMAIN keys |-> serializeValue(queryParams[keys[i]])]
    IN IF Len(query) > 0 THEN "?" \o Join(query, "&") ELSE ""

\* QuerySerializer.serialize: parameters whose value is undefined are skipped
QuerySerialize(queryParams) ==
    LET keys == KeysOf({k \in DOMAIN queryParams : ~IsUndefined(queryParams[k].value)})
        query == [i \in DOMAIN keys |-> serializeValue(queryParams[keys[i]])]
    IN IF Len(query) > 0 THEN "?" \o Join(query, "&") ELSE ""

\* serializedPath.replace(`{key}`, text): the first piece that is the token
ReplaceFirst(pieces, token, text) ==
    IF \E i \in DOMAIN pieces : pieces[i] = token
    THEN [pieces EXCEPT ![CHOOSE i \in DOMAIN pieces :
                             pieces[i] = token /\ \A j \in 1..(i - 1) : pieces[j] # token] = text]
    ELSE pieces

\* PathSerializer.serialize: pathArguments.forEach over the given keys
RECURSIVE PathSerializeKeys(_, _, _)
PathSerializeKeys(pieces, pathArguments, keys) ==
    IF Len(keys) = 0 THEN pieces
    ELSE PathSerializeKeys(
            ReplaceFirst(pieces, "{" \o pathArguments[Head(keys)].key \o "}",
                         serializeValue(pathArguments[Head(keys)])),
            pathArguments, Tail(keys))

\* PathSerializer.serialize
PathSerialize(pathPattern, pathArguments) ==
    PathSerializeKeys(pathPattern, pathArguments, KeysOf(DOMAIN pathArguments))

\* HeaderSerializer.serialize
HeaderSerialize(headerParams) ==
    IF DOMAIN headerParams = {} THEN Undefined
    ELSE Some([k \in DOMAIN headerParams |-> serializeValue(headerParams[k])])

\* CookieSerializer.serializeCookieValue
serializeCookieValue(param) ==
    LET items == IF param.value.kind = "array" THEN ItemTexts(param.value) ELSE <<>>
    IN CASE param.value.kind = "array" /\ param.explode ->
               IF Len(items) = 0 THEN ""
               ELSE Join(<<items[1]>> \o [i \in 1..(Len(items) - 1) |-> param.key \o "=" \o items[i + 1]],
                         "; ")
         [] param.value.kind = "array" -> Join(items, ",")
         [] param.value.kind = "object" -> "{" \o Join(EntryTexts(param.value, "", ":"), ",") \o "}"
         [] OTHER -> TextOf(param.value)

\* CookieSerializer.serialize: parameters whose value is undefined are skipped
CookieSerialize(cookieParams) ==
    IF DOMAIN cookieParams = {} THEN Undefined
    ELSE Some([k \in {c \in DOMAIN cookieParams : ~IsUndefined(cookieParams[c].value)} |->
                  serializeCookieValue(cookieParams[k])])

\* Request.constructPath
constructPath(req) == PathSerialize(req.pathPattern, req.pathParams)

\* Request.constructFullUrl
constructFullUrl(req) ==
    req.baseUrl \o Join(constructPath(req), "") \o QuerySerialize(req.queryParams)

\* what RequestFetchAdapter hands to fetch for a Request: the URL of send() and
\* the method, headers, cookies and body its constructor reads
Transmitted(req) ==
    [url |-> constructFullUrl(req),
     method |-> req.method,
     headers |-> HeaderSerialize(req.headers),
     cookies |-> CookieSerialize(req.cookies),
     body |-> req.body]

----------------------------------------------------------------------------
(* Calls whose Request carries path, query, header and cookie parameters *)

\* values a caller passes for a parameter
ParamValues == {Primitive("42"), ArrayOf(<<"a b", "c">>), ObjectOf(<<<<"role", "admin">>>>)}

\* the path parameter of GET /accounts/{accountId}: as RequestBuilder.addPathParam
\* stores it for a caller who gives only key and value (simple, explode, encode),
\* and with the style and explode of other OpenAPI path parameters
PathParamChoices ==
    {("accountId" :> MkParam("accountId", v, style, explode, TRUE)) :
        v \in ParamValues, style \in {"simple", "label", "matrix"}, explode \in BOOLEAN}

\* the Request objects of these calls
ParamRequests ==
    [method : {"GET"},
     baseUrl : {"https://bank"},
     path : {<<"/accounts/", "{accountId}">>},
     pathPattern : {<<"/accounts/", "{accountId}">>},
     body : {"undefined"},
     requestSchema : {"any"},
     requestContentType : {"json"},
     config : [retry : {Some(AttemptsOnlyRetry(MaxAttempts))}, validation : {Undefined}],
     errors : {<<>>},
     responses : {<<MkResponseDefinition("object", "json", 200)>>},
     headers : {("x-api-key" :> MkParam("x-api-key", Primitive("k1"), "simple", FALSE, FALSE))},
     queryParams : {("limit" :> MkParam("limit", v, "form", TRUE, TRUE)) : v \in ParamValues},
     pathParams : PathParamChoices,
     cookies : {<<>>, ("session" :> MkParam("session", Primitive("s1"), "form", TRUE, FALSE))},
     pagination : {Undefined}]

ParamsInit ==
    /\ request \in ParamRequests
    /\ suppliedHook = "CustomHook"
    /\ pc = "idle"
    /\ attempt = 0
    /\ nextRequest = Undefined
    /\ response = NoResponse
    /\ error = NoError
    /\ outcome = "pending"
    /\ delays = <<>>
    /\ trace = <<>>
    /\ originalBody = request.body
    /\ everyAttemptRetryable = TRUE
    /\ heap = <<>>
    /\ config = <<>>
    /\ bank = <<>>
    /\ firstRequest = request
    /\ handlers = LinkedHandlers
    /\ calls = <<>>

SpecParams == ParamsInit /\ [][Next]_vars

\* the parameter maps the hook round trip rebuilds
RebuiltMaps == {"queryParams", "headers", "pathParams"}

\* C13: when beforeRequest changes only parameter values (or nothing), every
\* query, header and path parameter of the Request passed on to the transport
\* keeps the style, explode and encode it had on the original Request.
C13_HookKeepsSerializationMetadata ==
    nextRequest # Undefined =>
        \A m \in RebuiltMaps : \A k \in DOMAIN request[m] :
            k \in DOMAIN nextRequest[1][m] =>
                /\ nextRequest[1][m][k].style = request[m][k].style
                /\ nextRequest[1][m][k].explode = request[m][k].explode
                /\ nextRequest[1][m][k].encode = request[m][k].encode

\* C14: with the default no-op hooks the chain behaves as if the hook layer
\* were absent: the URL, method, headers, cookies and body handed to the
\* transport are those of the Request that entered HookHandler, and the data of
\* a successful call's final response is the data decoded from the transport's
\* response as it left the transport.
C14_NoOpHooksAreTransparent ==
    /\ pc = "TerminatingHandler.handle" => Transmitted(nextRequest[1]) = Transmitted(request)
    /\ outcome = "returned" =>
          LET bare == MkResponse(response.status, response.header, response.body, response.attempt)
          IN /\ decodeBodyFromFullResponse(request, bare).ok
             /\ decodeBodyFromFullResponse(request, bare).response.data = response.data

----------------------------------------------------------------------------
(* ResponseValidationHandler decoding the response the inner chain returned *)

\* request.responses of the requests whose responses are decoded
DecodeResponsesChoices ==
    { <<>>,
      <<MkResponseDefinition("object", "json", 200)>>,
      <<MkResponseDefinition("string", "text", 200)>>,
      <<MkResponseDefinition("any", "eventStream", 200)>>,
      <<MkResponseDefinition("undefined", "json", 200)>>,
      <<MkResponseDefinition("string", "text", 200),
        MkResponseDefinition("object", "json", 200),
        MkResponseDefinition("any", "eventStream", 200),
        MkResponseDefinition("undefined", "json", 404),
        MkResponseDefinition("any", "json", 200)>> }

DecodeRequests ==
    [method : {"GET"},
     baseUrl : {"https://bank"},
     path : {<<"/accounts">>},
     pathPattern : {<<"/accounts">>},
     body : {"undefined"},
     requestSchema : {"any"},
     requestContentType : {"json"},
     config : [retry : {Undefined},
               validation : {Undefined, Some([responseValidation |-> Undefined]),
                             Some([responseValidation |-> Some(FALSE)])}],
     errors : {<<>>},
     responses : DecodeResponsesChoices,
     headers : {<<>>},
     queryParams : {<<>>},
     pathParams : {<<>>},
     cookies : {<<>>},
     pagination : {Undefined}]

\* the responses the inner chain returns: afterResponse let them through
DownstreamResponses ==
    {[MkResponse(st, h, b, 1) EXCEPT !.afterResponseBy = "CustomHook"] :
        st \in {200, 204, 404}, h \in DecodeHeaders, b \in ResponseBodies \cup {EventBody}}

DecodeInit ==
    /\ request \in DecodeRequests
    /\ response \in DownstreamResponses
    /\ pc = "ResponseValidationHandler.decode"
    /\ suppliedHook = "CustomHook"
    /\ attempt = 1
    /\ nextRequest = Undefined
    /\ error = NoError
    /\ outcome = "pending"
    /\ delays = <<>>
    /\ trace = <<>>
    /\ originalBody = request.body
    /\ everyAttemptRetryable = TRUE
    /\ heap = <<>>
    /\ config = <<>>
    /\ bank = <<>>
    /\ firstRequest = request
    /\ handlers = LinkedHandlers
    /\ calls = <<>>

NextDecode == ResponseValidation

SpecDecode == DecodeInit /\ [][NextDecode]_vars

\* the response as the inner chain returned it: decoding only adds data
Downstream == [response EXCEPT !.data = Undefined]

\* the matched definition's index for the response being decoded, 0 for none
Matched == getResponseDefinition(request.responses, Downstream)

\* ResponseValidationHandler has returned the response
Decoded == pc = "done" /\ outcome = "returned"

\* C15: getResponseDefinition returns the only definition unconditionally when
\* exactly one is declared, otherwise the first declared definition whose
\* (contentType, status) equals the response's classified content type and
\* status, and none when none matches or none is declared.
C15_ResponseDefinitionSelection ==
    LET defs == request.responses
        Fits(i) == /\ defs[i].contentType = getContentTypeDefinition(response.header)
                   /\ defs[i].status = response.status
    IN response # NoResponse =>
          /\ Len(defs) = 0 => Matched = 0
          /\ Len(defs) = 1 => Matched = 1
          /\ Len(defs) > 1 =>
                /\ Matched # 0 => Fits(Matched) /\ \A j \in 1..(Matched - 1) : ~Fits(j)
                /\ Matched = 0 => \A j \in 1..Len(defs) : ~Fits(j)
          /\ Decoded /\ Matched # 0 /\ hasContent(defs[Matched], response) =>
                response.data = Some(decodeFromArrayBuffer(defs[Matched], response).data)

\* a response was decoded with the only declared definition although neither
\* its status nor its content type is the declared one
C15_Witness ==
    /\ Decoded
    /\ Len(request.responses) = 1
    /\ request.responses[1].status # response.status
    /\ request.responses[1].contentType # getContentTypeDefinition(response.header)
    /\ response.data # Undefined

\* a response was decoded with a definition that is not the first declared one
C15_WitnessFirstMatch ==
    /\ Decoded
    /\ Len(request.responses) > 1
    /\ Matched = 2
    /\ response.data # Undefined

\* C16: ResponseValidationHandler returns the downstream response with data
\* unset and the body unread when no definition matches, the matched schema
\* signals no content or the status is 204; otherwise data is the decoded
\* body, which the definition's schema accepted when response validation is
\* enabled (the default); with validation disabled the decoded body is
\* returned whether or not the schema accepts it, and no schema error is raised.
C16_DataUnsetOrDecoded ==
    LET def == request.responses[Matched]
        noData == Matched = 0 \/ def.schema = "undefined" \/ response.status = 204
        decoded == DecodeAs(def.contentType, response.body)
    IN /\ Decoded /\ noData =>
            /\ response.data = Undefined
            /\ ~decodeBodyFromFullResponse(request, Downstream).bodyRead
       /\ Decoded /\ ~noData =>
            /\ response.data = Some(decoded.data)
            /\ decodeBodyFromFullResponse(request, Downstream).bodyRead
            /\ responseValidationEnabled(request) => ResponseSchemaAccepts(def.schema, decoded.data)
       /\ pc = "done" /\ outcome = "raised" =>
            /\ error.class \in {"SyntaxError", "ZodError"}
            /\ error.class = "ZodError" => responseValidationEnabled(request)

\* with validation disabled a decoded body the schema rejects was returned
C16_Witness ==
    /\ Decoded
    /\ ~responseValidationEnabled(request)
    /\ Matched # 0
    /\ response.data # Undefined
    /\ ~ResponseSchemaAccepts(request.responses[Matched].schema, response.data[1])

\* a 204 response with a matching definition and a body was returned undecoded
C16_WitnessNoContent ==
    /\ Decoded
    /\ Matched # 0
    /\ request.responses[Matched].schema # "undefined"
    /\ response.status = 204
    /\ response.data = Undefined

\* C17: decoding dispatches on the classification of the response's
\* content-type header: a decoded response whose header is
\* application/vnd.api+json is decoded as JSON and one whose header is
\* text/event-stream as JSON with the "data: " prefix stripped, whatever
\* content type the matched definition declares.
C17_DispatchOnResponseHeader ==
    Decoded /\ response.data # Undefined =>
        /\ response.header = "application/vnd.api+json" =>
              response.data = Some(<<"json", response.body>>)
        /\ response.header = "text/event-stream" =>
              response.data = Some(<<"json", StripDataPrefix(response.body)>>)

----------------------------------------------------------------------------
(* Streaming calls: HttpClient.stream *)

\* the Error thrown by ResponseValidationHandler.stream and RequestFetchAdapter.stream
StreamingNotSupported ==
    MkError("Error", "", -1,
            "Streaming is not supported when responseHeaders is enabled. Disable responseHeaders in SDK generation config to use streaming.",
            0)

\* the frame of the async generator HttpClient.stream returns: no code of the
\* chain has run before the consumer asks for the first element
NewStream(req) == [NewCall(req) EXCEPT !.pc = "created"]

\* yield* this.next.stream(request) in handler h
delegateStream(c, hs, h) == [c EXCEPT !.pc = hs[h].next[1] \o ".stream"]

\* handler h's generator throws err: the retry loop of an enclosing
\* RetryHandler.stream catches it, otherwise it reaches the consumer
thrownStream(c, h, err) ==
    [c EXCEPT !.error = err, !.response = NoResponse,
              !.pc = IF ThrowTo(h) = "done" THEN "done" ELSE "RetryHandler.streamCatch",
              !.outcome = IF ThrowTo(h) = "done" THEN "raised" ELSE @]

\* ResponseValidationHandler.stream delegating to the next handler's stream
responseValidationStreamDelegating(c, hs) ==
    Effect(delegateStream(c, hs, "ResponseValidationHandler"), hs)

\* ResponseValidationHandler.stream: throws as its first statement
responseValidationStream(c, hs) ==
    Effect(thrownStream(c, "ResponseValidationHandler", StreamingNotSupported), hs)

\* RequestValidationHandler.stream: guard, validateRequest, delegate
requestValidationStream(c, hs) ==
    LET v == validateRequest(c.request)
        validated == [c EXCEPT !.request.body = v.body]
    IN IF hs["RequestValidationHandler"].next = Undefined
       THEN Effect(thrownStream(c, "RequestValidationHandler",
                                NoNextHandler("RequestValidationHandler")), hs)
       ELSE IF v.ok
       THEN Effect(delegateStream(validated, hs, "RequestValidationHandler"), hs)
       ELSE Effect(thrownStream(validated, "RequestValidationHandler", v.error), hs)

\* RetryHandler.stream: the guard, the loop test, the catch block and the delay
retryStream(c, hs, rnd) ==
    IF c.pc = "RetryHandler.stream" /\ hs["RetryHandler"].next = Undefined
    THEN Effect(thrownStream(c, "RetryHandler", NoNextHandler("RetryHandler")), hs)
    ELSE IF c.pc \in {"RetryHandler.stream", "RetryHandler.streamLoop"}
    THEN LET a == IF c.pc = "RetryHandler.stream" THEN 1 ELSE c.attempt
             entered == [c EXCEPT !.attempt = a]
         IN IF a <= maxAttemptsOf(c.request)
            THEN Effect(delegateStream(entered, hs, "RetryHandler"), hs)
            ELSE Effect(thrownStream(entered, "RetryHandler",
                                     MkError("Error", "", -1, "Error retrying request.", 0)), hs)
    ELSE IF c.pc = "RetryHandler.streamCatch"
    THEN IF rethrows(c.error, c.request, c.attempt)
         THEN Effect(thrownStream(c, "RetryHandler", c.error), hs)
         ELSE Effect([c EXCEPT !.delays = Append(@, calculateDelay(c.attempt, c.request, rnd)),
                               !.randoms = Append(@, rnd),
                               !.pc = "RetryHandler.streamDelay"], hs)
    ELSE Effect([c EXCEPT !.attempt = @ + 1, !.error = NoError, !.pc = "RetryHandler.streamLoop"], hs)

\* HookHandler.stream: the guard, beforeRequest on a fresh adapter, then the
\* next handler's stream is iterated
hookStream(c, hs) ==
    IF hs["HookHandler"].next = Undefined
    THEN Effect(thrownStream(c, "HookHandler", NoNextHandler("HookHandler")), hs)
    ELSE Effect(delegateStream([c EXCEPT !.nextRequest =
                                    Some(AdapterBeforeRequest(AdapterHook, c.request))],
                               hs, "HookHandler"), hs)

\* TerminatingHandler.stream -> RequestFetchAdapter.stream: throws before any fetch
terminatingStream(c, hs) ==
    Effect(thrownStream(c, "TerminatingHandler", StreamingNotSupported), hs)

\* one step of the generator: HttpClient.stream -> streamChain ->
\* handlers[0].stream, then the handlers' stream bodies
streamStep(c, hs, rnd) ==
    LET in == [c EXCEPT !.entered = @ \cup {h \in DOMAIN hs : c.pc = h \o ".stream"}]
    IN CASE c.pc = "created" -> Effect([c EXCEPT !.pc = Chain[1] \o ".stream"], hs)
         [] c.pc = "ResponseValidationHandler.stream" -> responseValidationStream(in, hs)
         [] c.pc = "RequestValidationHandler.stream" -> requestValidationStream(in, hs)
         [] c.pc \in {"RetryHandler.stream", "RetryHandler.streamLoop", "RetryHandler.streamCatch",
                      "RetryHandler.streamDelay"} -> retryStream(in, hs, rnd)
         [] c.pc = "HookHandler.stream" -> hookStream(in, hs)
         [] c.pc = "TerminatingHandler.stream" -> terminatingStream(in, hs)
         [] OTHER -> Effect(c, hs)

StreamInit ==
    /\ \E r \in Requests : calls = <<NewStream(r)>>
    /\ \E h \in Hooks : handlers = [LinkedHandlers EXCEPT !["HookHandler"].hook = Some(h)]
    /\ request = NoRequest
    /\ firstRequest = NoRequest
    /\ suppliedHook = "CustomHook"
    /\ pc = "idle"
    /\ attempt = 0
    /\ nextRequest = Undefined
    /\ response = NoResponse
    /\ error = NoError
    /\ outcome = "pending"
    /\ delays = <<>>
    /\ trace = <<>>
    /\ originalBody = "undefined"
    /\ everyAttemptRetryable = TRUE
    /\ heap = <<>>
    /\ config = <<>>
    /\ bank = <<>>

\* the consumer asks the generator for its first element: generator.next()
Consume ==
    \E rnd \in 0..(RandomDen - 1) :
        /\ calls[1].pc # "done"
        /\ LET e == streamStep(calls[1], handlers, rnd)
           IN /\ calls' = [calls EXCEPT ![1] = e.call]
              /\ handlers' = e.handlers
        /\ UNCHANGED <<request, suppliedHook, pc, attempt, nextRequest, response, error, outcome,
                       delays, trace, originalBody, everyAttemptRetryable, firstRequest, heap, config, bank>>

NextStream == Consume

SpecStream == StreamInit /\ [][NextStream]_vars

\* C18: a streaming call through HttpClient.stream raises the 'Streaming is not
\* supported' error when it is first consumed and never reaches the inner
\* chain: no handler but ResponseValidationHandler runs, the request body is
\* not validated or serialized, no hook is invoked, no retry attempt or delay
\* happens, the transport is never called and no element is yielded.
C18_StreamRaisesBeforeInnerChain ==
    LET c == calls[1]
    IN /\ c.entered \subseteq {"ResponseValidationHandler"}
       /\ c.pc \in {"created", "ResponseValidationHandler.stream", "done"}
       /\ c.request = c.original
       /\ c.nextRequest = Undefined
       /\ c.attempt = 0 /\ c.delays = <<>> /\ c.sends = 0
       /\ c.response = NoResponse
       /\ c.pc = "done" <=> c.outcome = "raised"
       /\ c.pc = "done" => c.error = StreamingNotSupported
       /\ c.pc # "done" => c.error = NoError

\* a stream over a request whose body request validation would reject has
\* raised the streaming error
C18_Witness ==
    /\ calls[1].pc = "done"
    /\ calls[1].outcome = "raised"
    /\ calls[1].error = StreamingNotSupported
    /\ ~validateRequest(calls[1].original).ok

----------------------------------------------------------------------------
(* Pagination: Request.nextPage *)

\* how many times nextPage is called on one Request
MaxPages == 3

\* parameter values as JavaScript holds them: a number, a string of digits, undefined
NumberValue(n) == [kind |-> "number", num |-> n]

NumericString(n) == [kind |-> "numericString", num |-> n]

UndefinedValue == [kind |-> "undefined", num |-> 0]

NaN == [kind |-> "NaN", num |-> 0]

\* Number(value): a number is itself, a string of digits its number, undefined NaN
NumberOf(value) ==
    IF value.kind \in {"number", "numericString"} THEN NumberValue(value.num) ELSE NaN

\* Number(value) + pageSize: NaN stays NaN
PlusPageSize(value, pageSize) ==
    IF NumberOf(value) = NaN THEN NaN ELSE NumberValue(NumberOf(value).num + pageSize)

\* a RequestParameter with its pagination role flags
MkPageParam(key, value, isLimit, isOffset, isCursor) ==
    [MkParam(key, value, "form", TRUE, TRUE) EXCEPT
        !.isLimit = isLimit, !.isOffset = isOffset, !.isCursor = isCursor]

\* RequestPagination and RequestCursorPagination: the latter has a cursorPath
Paginations ==
    {Undefined,
     Some([pageSize |-> Undefined, pagePath |-> <<"items">>]),
     Some([pageSize |-> Some(1), pagePath |-> <<"items">>]),
     Some([pageSize |-> Some(20), pagePath |-> <<"items">>]),
     Some([pageSize |-> Some(20), pagePath |-> <<"items">>, cursorPath |-> <<"next">>])}

\* the offset values a caller starts from
OffsetValues ==
    {NumberValue(0), NumberValue(5), NumericString(0), NumericString(40), UndefinedValue}

\* the Request objects nextPage is called on: a query parameter `offset`, a
\* header `x-offset` and a cookie `page`, each flagged isOffset or not, a
\* flagged limit and a query parameter `cursor` flagged isCursor or not
PageRequests ==
    [method : {"GET"},
     baseUrl : {"https://bank"},
     path : {<<"/accounts">>},
     pathPattern : {<<"/accounts">>},
     body : {"undefined"},
     requestSchema : {"any"},
     requestContentType : {"json"},
     config : [retry : {Undefined}, validation : {Undefined}],
     errors : {<<>>},
     responses : {<<MkResponseDefinition("object", "json", 200)>>},
     headers : {("x-offset" :> MkPageParam("x-offset", NumberValue(7), FALSE, f, FALSE)) :
                    f \in BOOLEAN},
     queryParams : {("limit" :> MkPageParam("limit", NumberValue(20), TRUE, FALSE, FALSE)) @@
                    ("offset" :> MkPageParam("offset", v, FALSE, f, FALSE)) @@
                    ("cursor" :> MkPageParam("cursor", Primitive("c1"), FALSE, FALSE, g)) :
                        v \in OffsetValues, f \in BOOLEAN, g \in BOOLEAN},
     pathParams : {<<>>},
     cookies : {("page" :> MkPageParam("page", NumberValue(3), FALSE, f, FALSE)) : f \in BOOLEAN},
     pagination : Paginations]

\* isRequestCursorPagination: !!pagination && 'cursorPath' in pagination
isRequestCursorPagination(pagination) ==
    pagination # Undefined /\ "cursorPath" \in DOMAIN pagination[1]

\* getAllParams: the maps in the order their parameters are pushed
ParamMaps == <<"headers", "queryParams", "pathParams", "cookies">>

\* getAllParams().find(flag): where the first parameter with the flag set is
\* held, as <<map, key>>; the modelled requests flag at most one per map
FirstFlagged(req, flag) ==
    LET flagged(m) == {k \in DOMAIN req[m] : req[m][k][flag]}
        holding == {i \in DOMAIN ParamMaps : flagged(ParamMaps[i]) # {}}
        first == CHOOSE i \in holding : \A j \in holding : i <= j
    IN IF holding = {} THEN Undefined
       ELSE Some(<<ParamMaps[first], CHOOSE k \in flagged(ParamMaps[first]) : TRUE>>)

\* Request.getOffsetParam
getOffsetParam(req) == FirstFlagged(req, "isOffset")

\* getCursorParam looking for the isOffset flag
getCursorParamByOffsetFlag(req) == FirstFlagged(req, "isOffset")

\* Request.getCursorParam
getCursorParam(req) == FirstFlagged(req, "isCursor")

\* param.value = value on the parameter held at loc
WithValue(req, loc, value) == [req EXCEPT ![loc[1]][loc[2]].value = value]

\* the Error nextPage throws
PageSizeRequired ==
    MkError("Error", "", -1, "pageSize is required for limit-offset pagination", 0)

\* nextPage assigning the page size to the offset parameter
nextPageWithoutAdding(req, cursor) ==
    LET offsetParam == getOffsetParam(req)
    IN IF req.pagination = Undefined \/ isRequestCursorPagination(req.pagination)
          \/ offsetParam = Undefined
       THEN [ok |-> TRUE, request |-> req, error |-> NoError]
       ELSE IF req.pagination[1].pageSize = Undefined
       THEN [ok |-> FALSE, request |-> req, error |-> PageSizeRequired]
       ELSE [ok |-> TRUE, error |-> NoError,
             request |-> WithValue(req, offsetParam[1],
                                   NumberValue(req.pagination[1].pageSize[1]))]

\* Request.nextPage(cursor): the Request after the call, or the error thrown
nextPage(req, cursor) ==
    LET cursorParam == getCursorParam(req)
        offsetParam == getOffsetParam(req)
    IN IF req.pagination = Undefined
       THEN [ok |-> TRUE, request |-> req, error |-> NoError]
       ELSE IF isRequestCursorPagination(req.pagination)
       THEN [ok |-> TRUE, error |-> NoError,
             request |-> IF cursorParam # Undefined /\ cursor # Undefined
                         THEN WithValue(req, cursorParam[1], Primitive(cursor[1]))
                         ELSE req]
       ELSE IF offsetParam = Undefined
       THEN [ok |-> TRUE, request |-> req, error |-> NoError]
       ELSE IF req.pagination[1].pageSize = Undefined
       THEN [ok |-> FALSE, request |-> req, error |-> PageSizeRequired]
       ELSE [ok |-> TRUE, error |-> NoError,
             request |-> WithValue(req, offsetParam[1],
                                   PlusPageSize(req[offsetParam[1][1]][offsetParam[1][2]].value,
                                                req.pagination[1].pageSize[1]))]

PageInit ==
    /\ request \in PageRequests
    /\ firstRequest = request
    /\ pc = "paging"
    /\ suppliedHook = "CustomHook"
    /\ attempt = 0
    /\ nextRequest = Undefined
    /\ response = NoResponse
    /\ error = NoError
    /\ outcome = "pending"
    /\ delays = <<>>
    /\ trace = <<>>
    /\ originalBody = request.body
    /\ everyAttemptRetryable = TRUE
    /\ heap = <<>>
    /\ config = <<>>
    /\ bank = <<>>
    /\ handlers = LinkedHandlers
    /\ calls = <<>>

\* the cursors a caller passes to nextPage: none, or one taken from a response
Cursors == {Undefined, Some("c2"), Some("c3")}

\* one call of nextPage as trace records it: the cursor passed and how it ended
PageEvent(cursor, ended) == [op |-> "nextPage", hook |-> ended, cursor |-> cursor]

\* the caller calls request.nextPage(cursor)
NextPage ==
    \E cursor \in Cursors :
        /\ pc = "paging"
        /\ Len(trace) < MaxPages
        /\ LET r == nextPage(request, cursor)
           IN /\ request' = r.request
              /\ error' = r.error
              /\ outcome' = IF r.ok THEN "returned" ELSE "raised"
              /\ trace' = Append(trace, PageEvent(cursor, IF r.ok THEN "returned" ELSE "raised"))
        /\ UNCHANGED <<suppliedHook, pc, attempt, nextRequest, response, delays, originalBody,
                       everyAttemptRetryable, firstRequest, handlers, calls, heap, config, bank>>

SpecPage == PageInit /\ [][NextPage]_vars

\* the request uses limit-offset pagination
OffsetPagination(req) == req.pagination # Undefined /\ ~isRequestCursorPagination(req.pagination)

\* every parameter but the one at loc, and every other field, is as the caller built it
OnlyValueAtChanged(loc) ==
    /\ \A f \in DOMAIN request :
          f \notin {ParamMaps[i] : i \in DOMAIN ParamMaps} => request[f] = firstRequest[f]
    /\ \A i \in DOMAIN ParamMaps :
          LET m == ParamMaps[i]
          IN /\ DOMAIN request[m] = DOMAIN firstRequest[m]
             /\ \A k \in DOMAIN request[m] :
                   IF <<m, k>> = loc
                   THEN \A g \in DOMAIN request[m][k] :
                            g # "value" => request[m][k][g] = firstRequest[m][k][g]
                   ELSE request[m][k] = firstRequest[m][k]

\* C19: with offset pagination of pageSize p and a parameter flagged isOffset
\* whose value is the number v (given as a number or as a string of digits),
\* each nextPage() call adds exactly p to that parameter, never raises and
\* changes no other parameter: after n calls its value is the number v + n*p.
C19_OffsetAdvancesByPageSize ==
    LET loc == getOffsetParam(firstRequest)
        v == firstRequest[loc[1][1]][loc[1][2]].value
        now == request[loc[1][1]][loc[1][2]].value
        p == firstRequest.pagination[1].pageSize[1]
        n == Len(trace)
    IN pc = "paging" /\ OffsetPagination(firstRequest) /\ loc # Undefined
       /\ firstRequest.pagination[1].pageSize # Undefined /\ NumberOf(v) # NaN =>
          /\ NumberOf(now) = NumberValue(v.num + n * p)
          /\ n >= 1 => now.kind = "number"
          /\ OnlyValueAtChanged(loc[1])
          /\ \A i \in DOMAIN trace : trace[i].hook = "returned"

\* from offset 0 and pageSize 20 two calls of nextPage have made the offset 40
C19_Witness ==
    /\ pc = "paging"
    /\ OffsetPagination(firstRequest)
    /\ firstRequest.pagination[1].pageSize = Some(20)
    /\ firstRequest.queryParams["offset"].isOffset
    /\ ~firstRequest.headers["x-offset"].isOffset
    /\ firstRequest.queryParams["offset"].value = NumberValue(0)
    /\ Len(trace) = 2
    /\ request.queryParams["offset"].value = NumberValue(40)

\* C20: nextPage() on a request with limit-offset pagination whose pageSize is
\* not configured raises in every case, and leaves every parameter value
\* unchanged.
C20_MissingPageSizeRaises ==
    pc = "paging" /\ OffsetPagination(firstRequest)
    /\ firstRequest.pagination[1].pageSize = Undefined =>
        /\ \A i \in DOMAIN trace : trace[i].hook = "raised"
        /\ Len(trace) >= 1 => outcome = "raised" /\ error = PageSizeRequired
        /\ request = firstRequest

\* C21: with cursor pagination nextPage(cursor) sets the value of the
\* parameter flagged isCursor to the supplied cursor and changes nothing else;
\* it changes nothing and raises nothing when no parameter is flagged isCursor,
\* when cursor is undefined or when the request has no pagination descriptor;
\* a parameter flagged isOffset is never written.
C21_CursorAdvance ==
    LET loc == getCursorParam(firstRequest)
        given == {i \in DOMAIN trace : trace[i].cursor # Undefined}
        last == CHOOSE i \in given : \A j \in given : j <= i
    IN pc = "paging"
       /\ (firstRequest.pagination = Undefined \/ isRequestCursorPagination(firstRequest.pagination)) =>
          /\ \A i \in DOMAIN trace : trace[i].hook = "returned"
          /\ error = NoError
          /\ IF firstRequest.pagination = Undefined \/ loc = Undefined \/ given = {}
             THEN request = firstRequest
             ELSE /\ request[loc[1][1]][loc[1][2]].value = Primitive(trace[last].cursor[1])
                  /\ firstRequest[loc[1][1]][loc[1][2]].isCursor
                  /\ OnlyValueAtChanged(loc[1])

\* after nextPage("c2"), nextPage() and nextPage("c3") the cursor parameter
\* holds c3 and the query parameter flagged isOffset holds what it held
C21_Witness ==
    /\ pc = "paging"
    /\ isRequestCursorPagination(firstRequest.pagination)
    /\ firstRequest.queryParams["cursor"].isCursor
    /\ firstRequest.queryParams["offset"].isOffset
    /\ Len(trace) = 3
    /\ trace[1].cursor = Some("c2") /\ trace[2].cursor = Undefined /\ trace[3].cursor = Some("c3")
    /\ request.queryParams["cursor"].value = Primitive("c3")
    /\ request.queryParams["offset"] = firstRequest.queryParams["offset"]

----------------------------------------------------------------------------
(* Cursor-paginated calls: HttpClient.callCursorPaginated *)

\* decoded JSON values: fields holds an object's properties and is empty for
\* every other kind, text a string's characters
JNull == [kind |-> "null", text |-> "", fields |-> <<>>]

JUndefined == [kind |-> "undefined", text |-> "", fields |-> <<>>]

JString(s) == [kind |-> "string", text |-> s, fields |-> <<>>]

JArray == [kind |-> "array", text |-> "", fields |-> <<>>]

JObject(fields) == [kind |-> "object", text |-> "", fields |-> fields]

\* curr === null || curr === undefined
IsNullish(v) == v.kind \in {"null", "undefined"}

\* curr[segment] for a curr that is not null or undefined: a missing property,
\* and any named property of a string or an array, is undefined
Index(curr, segment) ==
    IF curr.kind = "object" /\ segment \in DOMAIN curr.fields
    THEN curr.fields[segment]
    ELSE JUndefined

\* the full response data of the modelled calls: the page under `items`, the
\* next cursor under `next` or under `meta.next`
FullResponses ==
    {JObject(("items" :> JArray) @@ ("next" :> JString("c2"))),
     JObject(("items" :> JArray) @@ ("next" :> JNull)),
     JObject("items" :> JArray),
     JObject(("items" :> JArray) @@ ("meta" :> JObject("next" :> JString("c2")))),
     JObject(("items" :> JArray) @@ ("meta" :> JObject("next" :> JNull))),
     JObject(("items" :> JArray) @@ ("meta" :> JNull)),
     JObject(("items" :> JArray) @@ ("meta" :> JString("none"))),
     JObject("next" :> JString("c2"))}

\* cursorSchema / pageSchema .parse(value) succeeds: z.string(),
\* z.string().nullish(), z.array(...)
JSchemaAccepts(schema, v) ==
    CASE schema = "string" -> v.kind = "string"
      [] schema = "nullishString" -> v.kind \in {"string", "null", "undefined"}
      [] schema = "array" -> v.kind = "array"
      [] OTHER -> FALSE

\* RequestCursorPagination and RequestPagination of the modelled calls
CursorPaginations ==
    [pagePath : {<<"items">>}, pageSchema : {Some("array")},
     cursorPath : {<<"next">>, <<"meta", "next">>},
     cursorSchema : {Undefined, Some("string"), Some("nullishString")}]
    \cup [pagePath : {<<"items">>}, pageSchema : {Undefined, Some("array")}, pageSize : {Some(20)}]

CursorRequests ==
    [method : {"GET"},
     baseUrl : {"https://bank"},
     path : {<<"/accounts">>},
     pathPattern : {<<"/accounts">>},
     body : {"undefined"},
     requestSchema : {"any"},
     requestContentType : {"json"},
     config : [retry : {Undefined}, validation : {Undefined}],
     errors : {<<>>},
     responses : {<<MkResponseDefinition("any", "json", 200)>>},
     headers : {<<>>},
     queryParams : {("cursor" :> MkPageParam("cursor", Primitive("c1"), FALSE, FALSE, TRUE))},
     pathParams : {<<>>},
     cookies : {<<>>},
     pagination : {Some(p) : p \in CursorPaginations}]

\* the loop of getPage over pagePath from segment i on: no test for null, so
\* indexing null or undefined throws a TypeError
RECURSIVE WalkPage(_, _, _)
WalkPage(curr, path, i) ==
    IF i > Len(path) THEN [ok |-> TRUE, value |-> curr]
    ELSE IF IsNullish(curr) THEN [ok |-> FALSE, value |-> curr]
    ELSE WalkPage(Index(curr, path[i]), path, i + 1)

\* HttpClient.getPage: the page, or the error thrown
getPage(req, data) ==
    LET walked == WalkPage(data, req.pagination[1].pagePath, 1)
        schema == req.pagination[1].pageSchema
    IN IF req.pagination = Undefined
       THEN [ok |-> FALSE, page |-> JUndefined,
             error |-> MkError("Error", "", -1, "getPage called for request without pagination property", 0)]
       ELSE IF ~walked.ok
       THEN [ok |-> FALSE, page |-> JUndefined,
             error |-> MkError("TypeError", "", -1, "Cannot read properties of undefined", 0)]
       ELSE IF schema # Undefined /\ ~JSchemaAccepts(schema[1], walked.value)
       THEN [ok |-> FALSE, page |-> JUndefined,
             error |-> MkError("ZodError", "", -1, "pageSchema", 0)]
       ELSE IF schema = Undefined
       THEN [ok |-> FALSE, page |-> JUndefined,
             error |-> MkError("Error", "", -1, "error getting page data", 0)]
       ELSE [ok |-> TRUE, page |-> walked.value, error |-> NoError]

\* the loop of getNextCursor over cursorPath from segment i on: a null or
\* undefined curr met before a segment is indexed ends the walk
RECURSIVE WalkCursor(_, _, _)
WalkCursor(curr, path, i) ==
    IF i > Len(path) THEN [stopped |-> FALSE, value |-> curr]
    ELSE IF IsNullish(curr) THEN [stopped |-> TRUE, value |-> curr]
    ELSE WalkCursor(Index(curr, path[i]), path, i + 1)

\* HttpClient.getNextCursor: undefined without cursor pagination, null when the
\* walk stops, else cursorSchema?.parse(curr) ?? null, or the error parse throws
getNextCursor(req, data) ==
    LET walked == WalkCursor(data, req.pagination[1].cursorPath, 1)
        schema == req.pagination[1].cursorSchema
    IN IF ~isRequestCursorPagination(req.pagination)
       THEN [ok |-> TRUE, cursor |-> JUndefined, error |-> NoError]
       ELSE IF walked.stopped \/ schema = Undefined
       THEN [ok |-> TRUE, cursor |-> JNull, error |-> NoError]
       ELSE IF ~JSchemaAccepts(schema[1], walked.value)
       THEN [ok |-> FALSE, cursor |-> JUndefined,
             error |-> MkError("ZodError", "", -1, "cursorSchema", 0)]
       ELSE [ok |-> TRUE, error |-> NoError,
             cursor |-> IF IsNullish(walked.value) THEN JNull ELSE walked.value]

\* this.call(request) has resolved with its decoded data, or with none
CalledResponses ==
    {[MkResponse(200, "application/json", "{}", 1) EXCEPT !.data = d] :
        d \in {Undefined} \cup {Some(full) : full \in FullResponses}}

\* the CursorPaginatedHttpResponse: {...response, data: page, nextCursor}
WithPage(resp, page, cursor) ==
    [f \in (DOMAIN resp) \cup {"nextCursor"} |->
        CASE f = "data" -> Some(page)
          [] f = "nextCursor" -> cursor
          [] OTHER -> resp[f]]

CursorInit ==
    /\ request \in CursorRequests
    /\ firstRequest = request
    /\ response \in CalledResponses
    /\ pc = "callCursorPaginated.called"
    /\ suppliedHook = "CustomHook"
    /\ attempt = 1
    /\ nextRequest = Undefined
    /\ error = NoError
    /\ outcome = "pending"
    /\ delays = <<>>
    /\ trace = <<>>
    /\ originalBody = request.body
    /\ everyAttemptRetryable = TRUE
    /\ heap = <<>>
    /\ config = <<>>
    /\ bank = <<>>
    /\ handlers = LinkedHandlers
    /\ calls = <<>>

\* HttpClient.callCursorPaginated after `await this.call(request)`; trace keeps
\* the data the call resolved with
CallCursorPaginated ==
    /\ pc = "callCursorPaginated.called"
    /\ pc' = "done"
    /\ trace' = Append(trace, [op |-> "call", hook |-> "", data |-> response.data])
    /\ IF response.data = Undefined
       THEN /\ error' = MkError("Error", "", -1, "no response data to paginate through", 0)
            /\ outcome' = "raised"
            /\ response' = response
       ELSE LET page == getPage(request, response.data[1])
                next == getNextCursor(request, response.data[1])
            IN IF ~page.ok
               THEN error' = page.error /\ outcome' = "raised" /\ response' = response
               ELSE IF ~next.ok
               THEN error' = next.error /\ outcome' = "raised" /\ response' = response
               ELSE /\ error' = NoError
                    /\ outcome' = "returned"
                    /\ response' = WithPage(response, page.page, next.cursor)
    /\ UNCHANGED <<request, suppliedHook, attempt, nextRequest, delays, originalBody,
                   everyAttemptRetryable, firstRequest, handlers, calls, heap, config, bank>>

NextCursor == CallCursorPaginated

SpecCursor == CursorInit /\ [][NextCursor]_vars

\* the value at cursorPath in the data the call resolved with, undefined when
\* the path passes through null or undefined
CursorInData ==
    WalkCursor(trace[1].data[1], request.pagination[1].cursorPath, 1).value

\* C22: getNextCursor returns null and raises no error whenever walking
\* cursorPath meets a null or undefined intermediate value or the cursor path
\* resolves to null, so callCursorPaginated returns the page with nextCursor =
\* null; a cursor present in the response is returned as the next cursor.
C22_NextCursor ==
    pc = "done" /\ isRequestCursorPagination(request.pagination) /\ trace[1].data # Undefined
    /\ getPage(request, trace[1].data[1]).ok =>
        /\ outcome = "returned"
        /\ IsNullish(CursorInData) => response.nextCursor = JNull
        /\ CursorInData.kind = "string" => response.nextCursor = CursorInData

----------------------------------------------------------------------------
(* Request.copy, and nextPage on a Request and on its copy *)

\* the fields of a Request that hold a Map
MapFields == {ParamMaps[i] : i \in DOMAIN ParamMaps}

\* the Request objects copy is called on, with their parameter maps as values
CopySources ==
    {[f \in (DOMAIN r) \cup {"filename", "filenames"} |->
        CASE f = "filename" -> name
          [] f = "filenames" -> Undefined
          [] OTHER -> r[f]] :
        r \in {q \in PageRequests :
                  /\ ~q.headers["x-offset"].isOffset
                  /\ ~q.cookies["page"].isOffset
                  /\ q.queryParams["offset"].value = NumberValue(0)},
        name \in {Undefined, Some("statement.pdf")}}

\* a Map the caller builds to pass as the queryParams override
OverrideQueryParams ==
    ("limit" :> MkPageParam("limit", NumberValue(20), TRUE, FALSE, FALSE)) @@
    ("offset" :> MkPageParam("offset", NumberValue(100), FALSE, TRUE, FALSE)) @@
    ("cursor" :> MkPageParam("cursor", Primitive("c9"), FALSE, FALSE, TRUE))

\* the Request object of the value v: its map fields hold the addresses of its Maps
AsObject(v) == [f \in DOMAIN v |-> IF f \in MapFields THEN "r." \o f ELSE v[f]]

\* the Maps in memory once the caller built the Request of value v and the override Map
HeapOf(v) ==
    [a \in {"r." \o f : f \in MapFields} \cup {"o.queryParams"} |->
        CASE a = "r.headers" -> v.headers
          [] a = "r.queryParams" -> v.queryParams
          [] a = "r.pathParams" -> v.pathParams
          [] a = "r.cookies" -> v.cookies
          [] OTHER -> OverrideQueryParams]

\* the Request object read through its references
Deref(obj, h) == [f \in DOMAIN obj |-> IF f \in MapFields THEN h[obj[f]] ELSE obj[f]]

\* the Maps after a method changed parameters of the Request object obj in
\* place, value being the Request as the method left it
Store(obj, value, h) ==
    [a \in DOMAIN h |->
        IF \E f \in MapFields : obj[f] = a
        THEN value[CHOOSE f \in MapFields : obj[f] = a]
        ELSE h[a]]

\* the overrides the modelled callers pass to copy
CopyOverrides(obj) ==
    {[baseUrl |-> "https://sandbox"],
     [pagination |-> obj.pagination],
     [pagination |-> obj.pagination, filename |-> Some("copy.pdf")],
     [queryParams |-> "o.queryParams", pagination |-> obj.pagination]}

CopyInit ==
    /\ \E v \in CopySources :
          /\ request = AsObject(v)
          /\ firstRequest = v
          /\ heap = HeapOf(v)
          /\ config = <<>>
          /\ bank = <<>>
          /\ originalBody = v.body
    /\ pc = "built"
    /\ suppliedHook = "CustomHook"
    /\ attempt = 0
    /\ nextRequest = Undefined
    /\ response = NoResponse
    /\ error = NoError
    /\ outcome = "pending"
    /\ delays = <<>>
    /\ trace = <<>>
    /\ everyAttemptRetryable = TRUE
    /\ handlers = LinkedHandlers
    /\ calls = <<>>

\* what trace records of a step: the method, the object it was called on, how
\* it ended, and its argument
CopyEvent(op, on, ended, cursor, overrides) ==
    [op |-> op, on |-> on, hook |-> ended, cursor |-> cursor, overrides |-> overrides]

\* c = r.copy() and c = r.copy(overrides)
Copy ==
    \E given \in BOOLEAN, ov \in CopyOverrides(request) :
        LET overrides == IF given THEN ov ELSE [f \in {} |-> Undefined]
        IN /\ pc = "built"
           /\ nextRequest' = Some(copy(request, overrides))
           /\ pc' = "copied"
           /\ trace' = Append(trace, CopyEvent("copy", "r", "returned", Undefined, overrides))
           /\ UNCHANGED <<request, suppliedHook, attempt, response, error, outcome, delays,
                          originalBody, everyAttemptRetryable, firstRequest, handlers, calls, heap, config, bank>>

\* nextPage(cursor) called on the Request object obj
NextPageOn(on, obj, cursor) ==
    LET r == nextPage(Deref(obj, heap), cursor)
    IN /\ pc = "copied"
       /\ Len(trace) <= MaxPages
       /\ heap' = Store(obj, r.request, heap)
       /\ error' = r.error
       /\ outcome' = IF r.ok THEN "returned" ELSE "raised"
       /\ trace' = Append(trace, CopyEvent("nextPage", on, IF r.ok THEN "returned" ELSE "raised",
                                           cursor, [f \in {} |-> Undefined]))
       /\ UNCHANGED <<request, suppliedHook, pc, attempt, nextRequest, response, delays,
                      originalBody, everyAttemptRetryable, firstRequest, handlers, calls, config, bank>>

\* c.nextPage(cursor)
NextPageOnCopy == \E cursor \in {Undefined, Some("c2")} : NextPageOn("c", nextRequest[1], cursor)

\* r.nextPage(cursor)
NextPageOnOriginal == \E cursor \in {Undefined, Some("c2")} : NextPageOn("r", request, cursor)

NextCopy ==
    \/ Copy
    \/ NextPageOnCopy
    \/ NextPageOnOriginal

SpecCopy == CopyInit /\ [][NextCopy]_vars

\* the fields of CreateRequestParameters the copy is to carry over
CopiedFields ==
    {"baseUrl", "method", "path", "body", "config", "headers", "queryParams", "pathParams",
     "cookies", "responses", "errors", "requestSchema", "requestContentType", "pagination",
     "filename", "filenames"}

\* C23: copy(overrides) returns a new Request in which every field (baseUrl,
\* method, path, body, config, the four parameter maps, responses, errors,
\* requestSchema, requestContentType, pagination descriptor, filename,
\* filenames) equals the current Request's value unless an override is given
\* for it, and equals the override where one is given.
C23_CopyKeepsEveryField ==
    pc = "copied" =>
        \A f \in CopiedFields :
            nextRequest[1][f] = IF f \in DOMAIN trace[1].overrides
                                THEN trace[1].overrides[f]
                                ELSE request[f]

\* the parameter values of the Request object obj in the Maps h
ParamsOf(obj, h) == [f \in MapFields |-> h[obj[f]]]

\* C24: advancing pagination on a copy does not disturb the original: a
\* nextPage call on the copy leaves every parameter value of the original as
\* it was, and a nextPage call on the original leaves every parameter value
\* of the copy as it was.
C24_CopyAdvancesAlone ==
    [][pc = "copied" /\ Len(trace') > Len(trace) =>
          /\ trace'[Len(trace')].on = "c" =>
                ParamsOf(request, heap') = ParamsOf(request, heap)
          /\ trace'[Len(trace')].on = "r" =>
                ParamsOf(nextRequest[1], heap') = ParamsOf(nextRequest[1], heap)]_vars

----------------------------------------------------------------------------
(* RequestBuilder, the Request it builds, and the parameters added to both *)

\* how many builder and Request operations one run performs
MaxOps == 4

\* Map.prototype.set
Put(map, key, param) ==
    [k \in (DOMAIN map) \cup {key} |-> IF k = key THEN param ELSE map[k]]

\* RequestBuilder.constructor with setPath and setPagination applied: the
\* CreateRequestParameters of GET /accounts/{accountId}
BuilderParams(pagination) ==
    [method |-> "GET",
     baseUrl |-> "https://bank",
     path |-> <<"/accounts/", "{accountId}">>,
     pathPattern |-> <<"/accounts/", "{accountId}">>,
     body |-> "undefined",
     requestSchema |-> "any",
     requestContentType |-> "json",
     config |-> [retry |-> Undefined, validation |-> Undefined],
     errors |-> <<>>,
     responses |-> <<MkResponseDefinition("object", "json", 200)>>,
     headers |-> <<>>,
     queryParams |-> <<>>,
     pathParams |-> <<>>,
     cookies |-> <<>>,
     pagination |-> pagination]

\* the values callers give to parameters; an optional argument left out is undefined
GivenValues(text) == {[kind |-> "undefined", num |-> 0], Primitive(text)}

\* RequestBuilder.addPathParam
builderAddPathParam(params, key, value) ==
    IF IsUndefined(value) \/ key = Undefined THEN params
    ELSE [params EXCEPT !.pathParams = Put(@, key[1], MkParam(key[1], value, "simple", TRUE, TRUE))]

\* RequestBuilder.addQueryParam: only the key is tested
builderAddQueryParam(params, key, value, isOffset) ==
    IF key = Undefined THEN params
    ELSE [params EXCEPT !.queryParams =
            Put(@, key[1], [MkParam(key[1], value, "form", TRUE, TRUE) EXCEPT !.isOffset = isOffset])]

\* RequestBuilder.addHeaderParam
builderAddHeaderParam(params, key, value) ==
    IF IsUndefined(value) \/ key = Undefined THEN params
    ELSE [params EXCEPT !.headers = Put(@, key[1], MkParam(key[1], value, "simple", TRUE, FALSE))]

\* RequestBuilder.addCookieParam
builderAddCookieParam(params, key, value) ==
    IF IsUndefined(value) \/ key = Undefined THEN params
    ELSE [params EXCEPT !.cookies = Put(@, key[1], MkParam(key[1], value, "form", TRUE, FALSE))]

\* Request.constructor: pathPattern is params.path, and path is constructPath()
\* evaluated while this.pathParams is still the empty Map of its field
\* initialiser; the parameter maps are assigned after it
NewRequest(params) ==
    [params EXCEPT !.pathPattern = params.path,
                   !.path = PathSerialize(params.path, <<>>)]

\* Request.addHeaderParam, for a param that gives key and value only
requestAddHeaderParam(req, key, value) ==
    IF IsUndefined(value) THEN req
    ELSE [req EXCEPT !.headers = Put(@, key, MkParam(key, value, "simple", FALSE, FALSE))]

\* Request.addQueryParam, for a param that gives key and value only
requestAddQueryParam(req, key, value) ==
    IF IsUndefined(value) THEN req
    ELSE [req EXCEPT !.queryParams = Put(@, key, MkParam(key, value, "form", TRUE, TRUE))]

\* Request.addPathParam, for a param that gives key and value only
requestAddPathParam(req, key, value) ==
    IF IsUndefined(value) THEN req
    ELSE [req EXCEPT !.pathParams = Put(@, key, MkParam(key, value, "simple", FALSE, TRUE))]

BuildInit ==
    /\ \E pagination \in {Undefined, Some([pageSize |-> Some(20), pagePath |-> <<"items">>])} :
          request = BuilderParams(pagination)
    /\ firstRequest = request
    /\ pc = "building"
    /\ suppliedHook = "CustomHook"
    /\ attempt = 0
    /\ nextRequest = Undefined
    /\ response = NoResponse
    /\ error = NoError
    /\ outcome = "pending"
    /\ delays = <<>>
    /\ trace = <<>>
    /\ originalBody = request.body
    /\ everyAttemptRetryable = TRUE
    /\ heap = <<>>
    /\ config = <<>>
    /\ bank = <<>>
    /\ handlers = LinkedHandlers
    /\ calls = <<>>

\* one operation op turns the builder's params or the Request into next
Operate(op, next) ==
    /\ Len(trace) < MaxOps
    /\ request' = next
    /\ trace' = Append(trace, Event(op, ""))
    /\ UNCHANGED <<suppliedHook, attempt, nextRequest, response, error, outcome, delays,
                   originalBody, everyAttemptRetryable, firstRequest, handlers, calls, heap, config, bank>>

BuilderAddPathParam ==
    \E key \in {Undefined, Some("accountId")}, value \in GivenValues("42") :
        /\ pc = "building" /\ pc' = pc
        /\ Operate("builder.addPathParam", builderAddPathParam(request, key, value))

BuilderAddQueryParam ==
    \E key \in {Undefined, Some("offset")}, isOffset \in BOOLEAN,
       value \in {[kind |-> "undefined", num |-> 0], [kind |-> "number", num |-> 0]} :
        /\ pc = "building" /\ pc' = pc
        /\ Operate("builder.addQueryParam", builderAddQueryParam(request, key, value, isOffset))

BuilderAddHeaderParam ==
    \E key \in {Undefined, Some("x-api-key")}, value \in GivenValues("k1") :
        /\ pc = "building" /\ pc' = pc
        /\ Operate("builder.addHeaderParam", builderAddHeaderParam(request, key, value))

BuilderAddCookieParam ==
    \E key \in {Undefined, Some("session")}, value \in GivenValues("s1") :
        /\ pc = "building" /\ pc' = pc
        /\ Operate("builder.addCookieParam", builderAddCookieParam(request, key, value))

\* RequestBuilder.build
Build ==
    /\ pc = "building" /\ pc' = "built"
    /\ Operate("build", NewRequest(request))

RequestAddHeaderParam ==
    \E value \in GivenValues("k2") :
        /\ pc = "built" /\ pc' = pc
        /\ Operate("request.addHeaderParam", requestAddHeaderParam(request, "x-trace", value))

RequestAddQueryParam ==
    \E value \in GivenValues("10") :
        /\ pc = "built" /\ pc' = pc
        /\ Operate("request.addQueryParam", requestAddQueryParam(request, "limit", value))

RequestAddPathParam ==
    \E value \in GivenValues("42") :
        /\ pc = "built" /\ pc' = pc
        /\ Operate("request.addPathParam", requestAddPathParam(request, "accountId", value))

\* request.nextPage() on the built Request
BuiltNextPage ==
    /\ pc = "built" /\ pc' = pc
    /\ nextPage(request, Undefined).ok
    /\ Operate("nextPage", nextPage(request, Undefined).request)

\* the Request goes through TransportHookAdapter.beforeRequest and the copy it
\* returns is the one sent
HookRoundTrip ==
    /\ pc = "built" /\ pc' = pc
    /\ Operate("beforeRequest", AdapterBeforeRequest(AdapterHook, request))

NextBuild ==
    \/ BuilderAddPathParam
    \/ BuilderAddQueryParam
    \/ BuilderAddHeaderParam
    \/ BuilderAddCookieParam
    \/ Build
    \/ RequestAddHeaderParam
    \/ RequestAddQueryParam
    \/ RequestAddPathParam
    \/ BuiltNextPage
    \/ HookRoundTrip

SpecBuild == BuildInit /\ [][NextBuild]_vars

\* the Request without the parameters whose value is undefined
WithoutUndefined(req) ==
    [f \in DOMAIN req |->
        IF f \in MapFields
        THEN [k \in {x \in DOMAIN req[f] : ~IsUndefined(req[f][x].value)} |-> req[f][k]]
        ELSE req[f]]

\* the keys of the parameters of map m whose value is undefined
UndefinedIn(m) == {k \in DOMAIN request[m] : IsUndefined(request[m][k].value)}

\* C25: for every parameter kind, after any sequence of builder and Request
\* add*Param calls, nextPage calls and hook round trips, a parameter whose
\* value is undefined does not appear in the constructed URL (the URL is the
\* one the Request has without that parameter), in the serialized header
\* object or in the serialized cookie object.
C25_UndefinedParamOmitted ==
    pc = "built" =>
        /\ constructFullUrl(request) = constructFullUrl(WithoutUndefined(request))
        /\ UndefinedIn("pathParams") = {}
        /\ \A k \in UndefinedIn("headers") :
              HeaderSerialize(request.headers) = Undefined
              \/ k \notin DOMAIN HeaderSerialize(request.headers)[1]
        /\ \A k \in UndefinedIn("cookies") :
              CookieSerialize(request.cookies) = Undefined
              \/ k \notin DOMAIN CookieSerialize(request.cookies)[1]

\* a built Request holds a query parameter whose value is undefined, went
\* through a hook round trip, and resolves to a URL without a query string
C25_Witness ==
    /\ pc = "built"
    /\ UndefinedIn("queryParams") # {}
    /\ \E i \in DOMAIN trace : trace[i].op = "beforeRequest"
    /\ "accountId" \in DOMAIN request.pathParams
    /\ constructFullUrl(request) = "https://bank/accounts/42"

\* C26: the path attribute of a Request is the resolved path: from
\* construction on it equals the path template with every {name} token
\* replaced by the serialized value of the path parameter of that name, the
\* text constructFullUrl places between baseUrl and the query string.
C26_PathIsResolved ==
    pc = "built" => request.path = constructPath(request)

----------------------------------------------------------------------------
(* The configuration hierarchy: BaseService, a service method, and
   RequestBuilder.setConfig.  An SdkConfig is a function from the keys it
   gives to their values; a key it does not give is not in its domain. *)

\* an object literal with no key, and what spreading undefined contributes
NoConfig == [k \in {} |-> Undefined]

\* { ...a, ...b }
Spread(a, b) == [k \in DOMAIN a \cup DOMAIN b |-> IF k \in DOMAIN b THEN b[k] ELSE a[k]]

\* ...opt of an optional object
SpreadOf(opt) == IF opt = Undefined THEN NoConfig ELSE opt[1]

\* the config a new RequestBuilder starts from
BuilderDefaults ==
    [retry |-> [attempts |-> 3, delayMs |-> 150, maxDelayMs |-> 5000, backoffFactor |-> 2,
                jitterMs |-> 50,
                httpMethodsToRetry |-> {"GET", "POST", "PUT", "DELETE", "PATCH", "HEAD", "OPTIONS"}],
     validation |-> [responseValidation |-> TRUE]]

\* the levels of the hierarchy, the most specific first
Levels == <<"request", "method", "service", "sdk">>

\* the values a caller writes at level number n differ from level to level
\* and from the builder's defaults
RetryGiven(n) == {[attempts |-> 3 + n], [delayMs |-> 100 * n]}

\* what a caller gives besides retry at level number n
OtherGiven(n) ==
    {NoConfig,
     [timeoutMs |-> 1000 * n],
     [validation |-> NoConfig],
     [validation |-> [responseValidation |-> FALSE], timeoutMs |-> 1000 * n]}

\* the Partial<SdkConfig> objects a caller passes at level number n
LevelConfigs(n) ==
    { Spread(IF retry = Undefined THEN NoConfig ELSE [retry |-> retry[1]], other) :
        retry \in {Undefined} \cup {Some(r) : r \in RetryGiven(n)},
        other \in OtherGiven(n) }

\* BaseService.getResolvedConfig
getResolvedConfig(sdkConfig, serviceConfig, methodConfig, requestConfig) ==
    Spread(Spread(Spread(sdkConfig, SpreadOf(serviceConfig)), SpreadOf(methodConfig)),
           SpreadOf(requestConfig))

\* config.<sub> ?? previous.<sub>, merged with the previous sub-object when both exist
MergedSub(previous, given, sub) ==
    IF sub \in DOMAIN given /\ sub \in DOMAIN previous THEN Some(Spread(previous[sub], given[sub]))
    ELSE IF sub \in DOMAIN given THEN Some(given[sub])
    ELSE IF sub \in DOMAIN previous THEN Some(previous[sub])
    ELSE Undefined

\* RequestBuilder.setConfig with every sub-object of the caller replacing the previous one
setConfigReplacing(previous, given) == Spread(previous, given)
\* RequestBuilder.setConfig: the new params.config
setConfig(previous, given) ==
    LET mergedRetry == MergedSub(previous, given, "retry")
        mergedValidation == MergedSub(previous, given, "validation")
    IN Spread(Spread(Spread(previous, given),
                     IF mergedRetry # Undefined THEN [retry |-> mergedRetry[1]] ELSE NoConfig),
              IF mergedValidation # Undefined THEN [validation |-> mergedValidation[1]]
              ELSE NoConfig)

\* a service object constructed with an SDK-level config, no method called yet
ConfigInit ==
    /\ \E sdkConfig \in LevelConfigs(4) :
          config = [sdk |-> sdkConfig, service |-> Undefined, method |-> Undefined,
                    request |-> Undefined, resolved |-> Undefined, builder |-> Undefined,
                    called |-> FALSE]
    /\ request = BuilderParams(Undefined)
    /\ firstRequest = request
    /\ pc = "service"
    /\ suppliedHook = "CustomHook"
    /\ attempt = 0
    /\ nextRequest = Undefined
    /\ response = NoResponse
    /\ error = NoError
    /\ outcome = "pending"
    /\ delays = <<>>
    /\ trace = <<>>
    /\ originalBody = request.body
    /\ everyAttemptRetryable = TRUE
    /\ heap = <<>>
    /\ bank = <<>>
    /\ handlers = LinkedHandlers
    /\ calls = <<>>

\* the frame of every step of the hierarchy
ConfigFrame ==
    UNCHANGED <<request, suppliedHook, pc, attempt, nextRequest, response, error, outcome, delays,
                trace, originalBody, everyAttemptRetryable, firstRequest, handlers, calls, heap,
                bank>>

\* BaseService.setConfig, before the call that is followed
ServiceSetConfig ==
    \E serviceConfig \in LevelConfigs(3) :
        /\ ~config.called
        /\ config' = [config EXCEPT !.service = Some(serviceConfig)]
        /\ ConfigFrame

\* AccountsService.setCreateAccountConfig, before the call that is followed
SetCreateAccountConfig ==
    \E methodConfig \in LevelConfigs(2) :
        /\ ~config.called
        /\ config' = [config EXCEPT !.method = Some(methodConfig)]
        /\ ConfigFrame

\* AccountsService.createAccount, up to the Request it builds: the resolved
\* config and the config of the RequestBuilder after setConfig(resolvedConfig)
CreateAccount ==
    \E requestConfig \in {Undefined} \cup {Some(c) : c \in LevelConfigs(1)} :
        LET resolvedConfig == getResolvedConfig(config.sdk, config.service, config.method,
                                                requestConfig)
        IN /\ config' = [config EXCEPT !.request = requestConfig,
                                       !.resolved = Some(resolvedConfig),
                                       !.builder = Some(setConfig(BuilderDefaults, resolvedConfig)),
                                       !.called = TRUE]
           /\ ConfigFrame

NextConfig == ServiceSetConfig \/ SetCreateAccountConfig \/ CreateAccount

SpecConfig == ConfigInit /\ [][NextConfig]_vars

\* C27: after setConfig(given) on a new RequestBuilder, every field of the
\* retry and validation sub-objects has the value the caller gave for it, and
\* the builder's default value when the caller gave none
C27_SetConfigMergesFieldByField ==
    config.called =>
        \A sub \in DOMAIN BuilderDefaults : \A f \in DOMAIN BuilderDefaults[sub] :
            /\ f \in DOMAIN config.builder[1][sub]
            /\ config.builder[1][sub][f] =
                  IF sub \in DOMAIN config.resolved[1] /\ f \in DOMAIN config.resolved[1][sub]
                  THEN config.resolved[1][sub][f]
                  ELSE BuilderDefaults[sub][f]

\* a caller who gave only retry.attempts has the defaults for every other retry field
C27_Witness ==
    /\ config.called
    /\ "retry" \in DOMAIN config.resolved[1]
    /\ DOMAIN config.resolved[1].retry = {"attempts"}
    /\ config.builder[1].retry.attempts = config.resolved[1].retry.attempts
    /\ config.builder[1].retry.attempts # BuilderDefaults.retry.attempts
    /\ config.builder[1].retry.delayMs = 150
    /\ config.builder[1].retry.maxDelayMs = 5000
    /\ config.builder[1].retry.backoffFactor = 2
    /\ config.builder[1].retry.jitterMs = 50
    /\ config.builder[1].retry.httpMethodsToRetry = BuilderDefaults.retry.httpMethodsToRetry

\* the config object given at a level, NoConfig when none was given
LevelConfig(level) ==
    IF level = "sdk" THEN config.sdk ELSE SpreadOf(config[level])

\* the levels, most specific first, that give the top-level setting key
GivingSetting(key) ==
    SelectSeq(Levels, LAMBDA level : key \in DOMAIN LevelConfig(level))

\* the levels, most specific first, that give field f of sub-object sub
GivingField(sub, f) ==
    SelectSeq(Levels, LAMBDA level : /\ sub \in DOMAIN LevelConfig(level)
                                     /\ f \in DOMAIN LevelConfig(level)[sub])

\* C28: the configuration of the Request takes each top-level setting, and
\* each field of retry and of validation, from the most specific level that
\* gives it, and from the builder's defaults when no level gives it
C28_HierarchyPrecedence ==
    config.called =>
        /\ \A key \in {"timeoutMs"} :
              IF GivingSetting(key) = <<>>
              THEN key \notin DOMAIN config.builder[1]
              ELSE /\ key \in DOMAIN config.builder[1]
                   /\ config.builder[1][key] = LevelConfig(GivingSetting(key)[1])[key]
        /\ \A sub \in DOMAIN BuilderDefaults : \A f \in DOMAIN BuilderDefaults[sub] :
              /\ f \in DOMAIN config.builder[1][sub]
              /\ config.builder[1][sub][f] =
                    IF GivingField(sub, f) = <<>>
                    THEN BuilderDefaults[sub][f]
                    ELSE LevelConfig(GivingField(sub, f)[1])[sub][f]

----------------------------------------------------------------------------
(* The bank API server: the in-memory Database and POST /api/v1/transactions *)

\* how many requests the server answers in one run
MaxPosts == 2

\* new Account(...)
MkAccount(accountId, owner, balance, currency, createdAt, accountType, apiKey) ==
    [accountId |-> accountId, owner |-> owner, balance |-> balance, currency |-> currency,
     createdAt |-> createdAt, accountType |-> accountType, apiKey |-> apiKey, deleted |-> FALSE]

\* new Transaction(...), without transactionId (the key of the Map) and createdAt
MkTransaction(fromAccountId, toAccountId, amount, currency) ==
    [fromAccountId |-> fromAccountId, toAccountId |-> toAccountId, amount |-> amount,
     currency |-> currency]

\* Database.constructor and initializeSampleData
SampleData ==
    [accounts |-> [id \in {"1", "2", "3"} |->
                      CASE id = "1" -> MkAccount("1", "Nova Newman", 10000, "COSMIC_COINS",
                                                 "2023-04-10", "STANDARD", "1234")
                        [] id = "2" -> MkAccount("2", "Gary Galaxy", 237, "COSMIC_COINS",
                                                 "2023-04-10", "PREMIUM", "1234")
                        [] id = "3" -> MkAccount("3", "Luna Starlight", 5000, "GALAXY_GOLD",
                                                 "2024-01-10", "BUSINESS", "1234")],
     transactions |-> [id \in {"1"} |-> MkTransaction("1", "2", 10000, "COSMIC_COINS")],
     apiKeys |-> {"1234"}]

\* uuidv4().split('-')[0]: one of the 16^8 strings of 8 hex digits, here one of two
ShortUuids == {"3f2a9c1e", "b81d04a7"}

\* the x-api-key header of a request
ApiKeys == {Undefined, Some("1234"), Some("test-key")}

\* the JSON bodies posted: account ids given or not, of a sample account, of no
\* account, "0" for a deposit; an amount that is zero, positive, or a string;
\* a currency given or not
TransactionBodies ==
    [fromAccountId : {Undefined, Some("0"), Some("1"), Some("2"), Some("3"), Some("9")},
     toAccountId : {Undefined, Some("1"), Some("2"), Some("3"), Some("9")},
     amount : {NumberValue(0), NumberValue(500), NumericString(500)},
     currency : {Undefined, Some("COSMIC_COINS")}]

\* Transaction.validate: isValid
TransactionValidate(data) ==
    /\ data.fromAccountId # Undefined
    /\ data.toAccountId # Undefined
    /\ data.amount.kind = "number" /\ data.amount.num > 0
    /\ data.currency # Undefined

\* Database.getAccountById: the account, or null
getAccountById(db, accountId) ==
    IF accountId \in DOMAIN db.accounts THEN Some(db.accounts[accountId]) ELSE Undefined

\* an account taken to cover every amount
hasSufficientFundsAlways(account, amount) == TRUE
\* Account.hasSufficientFunds
hasSufficientFunds(account, amount) == account.balance >= amount

\* Account.updateBalance on the Account object stored under accountId
updateBalance(db, accountId, amount) ==
    [db EXCEPT !.accounts[accountId].balance = @ + amount]

\* Database.createTransaction with the generated id transactionId
createTransaction(db, transactionId, data) ==
    [db EXCEPT !.transactions =
        Put(@, transactionId, MkTransaction(data.fromAccountId[1], data.toAccountId[1],
                                            data.amount.num, data.currency[1]))]

\* what the route answers and leaves in the Database
Answer(status, name, db) == [status |-> status, name |-> name, db |-> db]

\* the route deducting from the source account before it compares currencies
postTransactionDeductingFirst(db, data, transactionId) ==
    IF ~TransactionValidate(data) THEN Answer(400, "validationError", db)
    ELSE LET toAccount == getAccountById(db, data.toAccountId[1])
             fromAccount == getAccountById(db, data.fromAccountId[1])
             amount == data.amount.num
             deducted == IF data.fromAccountId[1] # "0"
                         THEN updateBalance(db, data.fromAccountId[1], -amount)
                         ELSE db
             added == updateBalance(deducted, data.toAccountId[1], amount)
         IN IF toAccount = Undefined THEN Answer(404, "instanceNotFoundError", db)
            ELSE IF data.fromAccountId[1] # "0" /\ fromAccount = Undefined
            THEN Answer(404, "instanceNotFoundError", db)
            ELSE IF data.fromAccountId[1] # "0" /\ ~hasSufficientFunds(fromAccount[1], amount)
            THEN Answer(403, "txInsufficientFunds", db)
            ELSE IF toAccount[1].currency # data.currency[1]
            THEN Answer(400, "validationError", deducted)
            ELSE IF data.fromAccountId[1] # "0" /\ fromAccount[1].currency # data.currency[1]
            THEN Answer(400, "validationError", deducted)
            ELSE Answer(201, "", createTransaction(added, transactionId, data))
\* the route handler of POST /api/v1/transactions, after validateApiKey
postTransaction(db, data, transactionId) ==
    IF ~TransactionValidate(data) THEN Answer(400, "validationError", db)
    ELSE LET toAccount == getAccountById(db, data.toAccountId[1])
             fromAccount == getAccountById(db, data.fromAccountId[1])
             amount == data.amount.num
             deducted == IF data.fromAccountId[1] # "0"
                         THEN updateBalance(db, data.fromAccountId[1], -amount)
                         ELSE db
             added == updateBalance(deducted, data.toAccountId[1], amount)
         IN IF toAccount = Undefined THEN Answer(404, "instanceNotFoundError", db)
            ELSE IF toAccount[1].currency # data.currency[1]
            THEN Answer(400, "validationError", db)
            ELSE IF data.fromAccountId[1] # "0" /\ fromAccount = Undefined
            THEN Answer(404, "instanceNotFoundError", db)
            ELSE IF data.fromAccountId[1] # "0" /\ ~hasSufficientFunds(fromAccount[1], amount)
            THEN Answer(403, "txInsufficientFunds", db)
            ELSE IF data.fromAccountId[1] # "0" /\ fromAccount[1].currency # data.currency[1]
            THEN Answer(400, "validationError", db)
            ELSE Answer(201, "", createTransaction(added, transactionId, data))

\* validateApiKey followed by the route it guards
validateApiKeyThen(db, apiKey, data, transactionId) ==
    IF apiKey = Undefined THEN Answer(401, "authenticationError", db)
    ELSE postTransaction([db EXCEPT !.apiKeys = @ \cup {apiKey[1]}], data, transactionId)

\* the server started, no request answered yet
BankInit ==
    /\ bank = [db |-> SampleData, posts |-> 0, status |-> 0, op |-> "", apiKey |-> Undefined,
               data |-> Undefined]
    /\ config = <<>>
    /\ request = BuilderParams(Undefined)
    /\ firstRequest = request
    /\ pc = "listening"
    /\ suppliedHook = "CustomHook"
    /\ attempt = 0
    /\ nextRequest = Undefined
    /\ response = NoResponse
    /\ error = NoError
    /\ outcome = "pending"
    /\ delays = <<>>
    /\ trace = <<>>
    /\ originalBody = request.body
    /\ everyAttemptRetryable = TRUE
    /\ heap = <<>>
    /\ handlers = LinkedHandlers
    /\ calls = <<>>

\* what no request to the server changes
BankFrame ==
    UNCHANGED <<request, suppliedHook, pc, attempt, nextRequest, response, error, outcome,
                delays, trace, originalBody, everyAttemptRetryable, firstRequest,
                handlers, calls, heap, config>>

\* the server has answered the request op of apiKey with answer
Answered(op, apiKey, data, answer) ==
    /\ bank' = [db |-> answer.db, posts |-> bank.posts + 1, status |-> answer.status,
                op |-> op, apiKey |-> apiKey, data |-> Some(data)]
    /\ BankFrame

\* one POST /api/v1/transactions request answered, its key and body among
\* keys and bodies, as one of at most limit requests
PostTransactionOf(keys, bodies, limit) ==
    \E apiKey \in keys, data \in bodies, transactionId \in ShortUuids :
        /\ bank.posts < limit
        /\ Answered("POST /transactions", apiKey, data,
                    validateApiKeyThen(bank.db, apiKey, data, transactionId))

\* one POST /api/v1/transactions request answered
PostTransaction == PostTransactionOf(ApiKeys, TransactionBodies, MaxPosts)

NextBank == PostTransaction

SpecBank == BankInit /\ [][NextBank]_vars

\* the sum of the balances of the accounts ids
RECURSIVE SumOfBalances(_, _)
SumOfBalances(accounts, ids) ==
    IF ids = {} THEN 0
    ELSE LET id == CHOOSE x \in ids : TRUE
         IN accounts[id].balance + SumOfBalances(accounts, ids \ {id})

\* the balance of account id after the step minus its balance before
BalanceChange(id) == bank'.db.accounts[id].balance - bank.db.accounts[id].balance

\* C30: a request answered 201 with a fromAccountId other than "0" has taken
\* the amount from the source account and added it to the destination account,
\* leaving the sum of all balances as it was; one answered 201 with
\* fromAccountId "0" has added the amount to the destination account and
\* changed no other balance; either has made the transactions one more.
C30_TransferMovesAmount ==
    [][(bank'.posts = bank.posts + 1 /\ bank'.status = 201) =>
          LET data == bank'.data[1]
              from == data.fromAccountId[1]
              to == data.toAccountId[1]
              ids == DOMAIN bank.db.accounts
          IN /\ DOMAIN bank'.db.accounts = ids
             /\ BalanceChange(to) = data.amount.num
             /\ IF from = "0"
                THEN \A id \in ids \ {to} : BalanceChange(id) = 0
                ELSE /\ BalanceChange(from) = -data.amount.num
                     /\ \A id \in ids \ {from, to} : BalanceChange(id) = 0
                     /\ SumOfBalances(bank'.db.accounts, ids) = SumOfBalances(bank.db.accounts, ids)
             /\ Cardinality(DOMAIN bank'.db.transactions)
                   = Cardinality(DOMAIN bank.db.transactions) + 1]_vars

\* C31: a request answered 400, 403 or 404 has changed no account and no
\* recorded transaction.
C31_RejectedChangesNothing ==
    [][(bank'.posts = bank.posts + 1 /\ bank'.status \in {400, 403, 404}) =>
          /\ bank'.db.accounts = bank.db.accounts
          /\ bank'.db.transactions = bank.db.transactions]_vars

\* C31 witness: a transfer answered 403 for insufficient funds after an earlier
\* request was answered 201, with the balances the earlier request left
C31_Witness ==
    /\ bank.posts = 2
    /\ bank.status = 403
    /\ bank.data[1].fromAccountId = Some("2")
    /\ bank.db.accounts # SampleData.accounts
    /\ bank.db.accounts["2"].balance < bank.data[1].amount.num

\* C32: a request without an API key, or with one that is not registered, is
\* answered 401 and reaches no route; only a request with a registered key is
\* answered otherwise; the registered keys never change.
C32_UnregisteredKeyRejected ==
    [][bank'.posts = bank.posts + 1 =>
          /\ bank'.db.apiKeys = bank.db.apiKeys
          /\ (bank'.apiKey = Undefined \/ bank'.apiKey[1] \notin bank.db.apiKeys) =>
                (bank'.status = 401 /\ bank'.db = bank.db)
          /\ bank'.status # 401 =>
                (bank'.apiKey # Undefined /\ bank'.apiKey[1] \in bank.db.apiKeys)]_vars

----------------------------------------------------------------------------
(* The bank API server: the account routes.  A request body is a function
   from the keys it gives to their values. *)

\* how many requests the server answers in one run of the account routes
MaxRequests == 3

\* the :id of a request: a sample account, no account, a generated id
AccountIds == {"2", "9"} \cup ShortUuids

\* the bodies posted to create an account: valid without and with a balance,
\* with a negative balance, without an owner
CreateBodies ==
    {[owner |-> "Ada", currency |-> "COSMIC_COINS"],
     [owner |-> "Ada", currency |-> "COSMIC_COINS", balance |-> NumberValue(237)],
     [owner |-> "Ada", currency |-> "COSMIC_COINS", balance |-> NumberValue(-5)],
     [currency |-> "COSMIC_COINS"]}

\* the bodies put to update an account
UpdateBodies ==
    {[owner |-> "Zed"],
     [accountType |-> "BUSINESS"],
     [currency |-> "GALAXY_GOLD"],
     [currency |-> "EARTH_EUROS"],
     [owner |-> "Zed", balance |-> NumberValue(99999)],
     [accountId |-> "1"]}

\* the transfers and deposits posted between the account routes' requests
TransferBodies ==
    [fromAccountId : {Some("0"), Some("2"), Some("3f2a9c1e")},
     toAccountId : {Some("2"), Some("3f2a9c1e")},
     amount : {NumberValue(237), NumberValue(500)},
     currency : {Some("COSMIC_COINS")}]

\* Account.validate: isValid
AccountValidate(data) ==
    /\ "owner" \in DOMAIN data /\ data.owner # ""
    /\ "currency" \in DOMAIN data
    /\ data.currency \in {"COSMIC_COINS", "GALAXY_GOLD", "MOON_BUCKS"}
    /\ "balance" \in DOMAIN data => (data.balance.kind = "number" /\ data.balance.num >= 0)
    /\ "accountType" \in DOMAIN data => data.accountType \in {"STANDARD", "PREMIUM", "BUSINESS"}

\* validateApiKey for a request that carries a key: the key is registered
Registered(db, apiKey) == [db EXCEPT !.apiKeys = @ \cup {apiKey[1]}]

\* Database.createAccount with the generated id accountId
createAccount(db, accountData, apiKey, accountId) ==
    [db EXCEPT !.accounts =
        Put(@, accountId,
            MkAccount(accountId, accountData.owner,
                      IF "balance" \in DOMAIN accountData /\ accountData.balance.num # 0
                      THEN accountData.balance.num ELSE 0,
                      accountData.currency, "today",
                      IF "accountType" \in DOMAIN accountData THEN accountData.accountType
                      ELSE "STANDARD",
                      apiKey))]

\* Database.getAccounts with the apiKey filter: the ids of the accounts listed
getAccounts(db, apiKey) ==
    {id \in DOMAIN db.accounts : ~db.accounts[id].deleted /\ db.accounts[id].apiKey = apiKey}

\* Database.updateAccount, for an account that exists and is not deleted
dbUpdateAccount(db, accountId, updates) ==
    LET account == db.accounts[accountId]
        owner == IF "owner" \in DOMAIN updates /\ updates.owner # ""
                 THEN updates.owner ELSE account.owner
        currency == IF "currency" \in DOMAIN updates /\ updates.currency # ""
                    THEN updates.currency ELSE account.currency
        accountType == IF "accountType" \in DOMAIN updates /\ updates.accountType # ""
                       THEN updates.accountType ELSE account.accountType
    IN [db EXCEPT !.accounts[accountId] =
           [account EXCEPT !.owner = owner, !.currency = currency, !.accountType = accountType]]

\* Database.deleteAccount, for an account that exists and is not deleted
dbDeleteAccount(db, accountId) == [db EXCEPT !.accounts[accountId].deleted = TRUE]

\* the checks GET, PUT and DELETE /api/v1/accounts/:id start with: 0 when the
\* request may proceed, else the status answered
AccountAccess(db, apiKey, id) ==
    IF id \notin DOMAIN db.accounts \/ db.accounts[id].deleted THEN 404
    ELSE IF db.accounts[id].apiKey # apiKey THEN 403
    ELSE 0

\* GET /api/v1/accounts
listAccounts(db, apiKey) ==
    IF apiKey = Undefined THEN Answer(401, "authenticationError", db)
    ELSE Answer(200, "", Registered(db, apiKey))

\* POST /api/v1/accounts
postAccount(db, apiKey, accountData, accountId) ==
    IF apiKey = Undefined THEN Answer(401, "authenticationError", db)
    ELSE IF ~AccountValidate(accountData)
    THEN Answer(400, "validationError", Registered(db, apiKey))
    ELSE Answer(201, "", createAccount(Registered(db, apiKey), accountData, apiKey[1], accountId))

\* GET /api/v1/accounts/:id
getAccount(db, apiKey, id) ==
    IF apiKey = Undefined THEN Answer(401, "authenticationError", db)
    ELSE LET access == AccountAccess(db, apiKey[1], id)
         IN IF access = 404 THEN Answer(404, "notFound", Registered(db, apiKey))
            ELSE IF access = 403 THEN Answer(403, "forbidden", Registered(db, apiKey))
            ELSE Answer(200, "", Registered(db, apiKey))

\* PUT /api/v1/accounts/:id
putAccount(db, apiKey, id, updates) ==
    IF apiKey = Undefined THEN Answer(401, "authenticationError", db)
    ELSE LET access == AccountAccess(db, apiKey[1], id)
             registered == Registered(db, apiKey)
             validationData ==
                 Spread([db.accounts[id] EXCEPT !.balance = NumberValue(@)], updates)
         IN IF access = 404 THEN Answer(404, "notFound", registered)
            ELSE IF access = 403 THEN Answer(403, "forbidden", registered)
            ELSE IF "balance" \in DOMAIN updates THEN Answer(400, "validationError", registered)
            ELSE IF DOMAIN updates \cap {"accountId", "createdAt", "apiKey", "deleted"} # {}
            THEN Answer(400, "validationError", registered)
            ELSE IF ~AccountValidate(validationData)
            THEN Answer(400, "validationError", registered)
            ELSE Answer(200, "", dbUpdateAccount(registered, id, updates))

\* DELETE /api/v1/accounts/:id
deleteAccount(db, apiKey, id) ==
    IF apiKey = Undefined THEN Answer(401, "authenticationError", db)
    ELSE LET access == AccountAccess(db, apiKey[1], id)
         IN IF access = 404 THEN Answer(404, "notFound", Registered(db, apiKey))
            ELSE IF access = 403 THEN Answer(403, "forbidden", Registered(db, apiKey))
            ELSE Answer(200, "", dbDeleteAccount(Registered(db, apiKey), id))

\* what bank.data records of a request to an account route
AccountRequest(id, body) == [id |-> id, body |-> body]

ListAccounts ==
    \E apiKey \in ApiKeys :
        /\ bank.posts < MaxRequests
        /\ Answered("GET /accounts", apiKey, AccountRequest("", NoConfig),
                    listAccounts(bank.db, apiKey))

CreateBankAccount ==
    \E apiKey \in ApiKeys, accountData \in CreateBodies, accountId \in ShortUuids :
        /\ bank.posts < MaxRequests
        /\ Answered("POST /accounts", apiKey, AccountRequest(accountId, accountData),
                    postAccount(bank.db, apiKey, accountData, accountId))

GetAccount ==
    \E apiKey \in ApiKeys, id \in AccountIds :
        /\ bank.posts < MaxRequests
        /\ Answered("GET /accounts/:id", apiKey, AccountRequest(id, NoConfig),
                    getAccount(bank.db, apiKey, id))

UpdateAccount ==
    \E apiKey \in ApiKeys, id \in AccountIds, updates \in UpdateBodies :
        /\ bank.posts < MaxRequests
        /\ Answered("PUT /accounts/:id", apiKey, AccountRequest(id, updates),
                    putAccount(bank.db, apiKey, id, updates))

DeleteAccount ==
    \E apiKey \in ApiKeys, id \in AccountIds :
        /\ bank.posts < MaxRequests
        /\ Answered("DELETE /accounts/:id", apiKey, AccountRequest(id, NoConfig),
                    deleteAccount(bank.db, apiKey, id))

\* POST /api/v1/transactions between the requests to the account routes
Transfer == PostTransactionOf({Some("1234")}, TransferBodies, MaxRequests)

NextAccounts ==
    \/ ListAccounts
    \/ CreateBankAccount
    \/ GetAccount
    \/ UpdateAccount
    \/ DeleteAccount
    \/ Transfer

SpecAccounts == BankInit /\ [][NextAccounts]_vars

\* the accounts that are deleted
DeletedAccounts == {id \in DOMAIN bank.db.accounts : bank.db.accounts[id].deleted}

\* C33: a deleted account stays deleted whatever request is answered next, and
\* as long as it is deleted every GET, PUT and DELETE of it that carries an API
\* key is answered 404 and no listing holds it.
C33_DeletedStaysGone ==
    /\ [](\A id \in DeletedAccounts : \A apiKey \in ApiKeys \ {Undefined} :
             /\ getAccount(bank.db, apiKey, id).status = 404
             /\ \A updates \in UpdateBodies : putAccount(bank.db, apiKey, id, updates).status = 404
             /\ deleteAccount(bank.db, apiKey, id).status = 404
             /\ id \notin getAccounts(bank.db, apiKey[1]))
    /\ [][\A id \in DeletedAccounts :
             /\ id \in DOMAIN bank'.db.accounts
             /\ bank'.db.accounts[id].deleted]_vars

\* C34: a PUT /api/v1/accounts/:id request changes no account's balance,
\* accountId, createdAt or currency, and one that names balance changes
\* nothing and is answered 400 when the account is the caller's own.
C34_UpdateKeepsFixedFields ==
    [][(bank'.posts = bank.posts + 1 /\ bank'.op = "PUT /accounts/:id") =>
          LET id == bank'.data[1].id
              updates == bank'.data[1].body
          IN /\ DOMAIN bank'.db.accounts = DOMAIN bank.db.accounts
             /\ \A a \in DOMAIN bank.db.accounts :
                   \A f \in {"balance", "accountId", "createdAt", "currency"} :
                      bank'.db.accounts[a][f] = bank.db.accounts[a][f]
             /\ "balance" \in DOMAIN updates =>
                   /\ bank'.db.accounts = bank.db.accounts
                   /\ bank'.status # 200
                   /\ (bank'.apiKey # Undefined /\ AccountAccess(bank.db, bank'.apiKey[1], id) = 0)
                         => bank'.status = 400]_vars

\* C38: every account's balance is at least 0.
C38_BalancesNeverNegative ==
    \A id \in DOMAIN bank.db.accounts : bank.db.accounts[id].balance >= 0

\* C38 witness: a transfer from an account to itself was answered 201, and an
\* account created by a request has been emptied by a transfer of its whole balance
C38_Witness ==
    /\ bank.op = "POST /transactions" /\ bank.status = 201
    /\ bank.data[1].fromAccountId = bank.data[1].toAccountId
    /\ \E id \in ShortUuids :
          /\ id \in DOMAIN bank.db.accounts
          /\ bank.db.accounts[id].balance = 0
          /\ \E t \in DOMAIN bank.db.transactions :
                /\ bank.db.transactions[t].fromAccountId = id
                /\ bank.db.transactions[t].toAccountId # id

----------------------------------------------------------------------------
(* The same Request sent through HttpClient.call more than once *)

\* calls made with one Request object
MaxCalls == 2

\* the Requests sent repeatedly: every body, schema and content type, two attempts
ResendRequests ==
    {r \in Requests :
        /\ r.method = "GET"
        /\ r.config.retry = Some(AttemptsOnlyRetry(2))
        /\ r.config.validation = Undefined
        /\ r.errors = <<>>
        /\ r.responses = <<MkResponseDefinition("object", "json", 200)>>}

\* heap holds, for every settled earlier call, the body the call left on the Request
ResendInit ==
    /\ request \in ResendRequests
    /\ suppliedHook = "CustomHook"
    /\ pc = "idle"
    /\ attempt = 0
    /\ nextRequest = Undefined
    /\ response = NoResponse
    /\ error = NoError
    /\ outcome = "pending"
    /\ delays = <<>>
    /\ trace = <<>>
    /\ originalBody = request.body
    /\ everyAttemptRetryable = TRUE
    /\ heap = <<>>
    /\ config = <<>>
    /\ bank = <<>>
    /\ firstRequest = request
    /\ handlers = [LinkedHandlers EXCEPT !["HookHandler"].hook = Some(suppliedHook)]
    /\ calls = <<>>

\* the caller, whose call returned, passes the same Request object to
\* HttpClient.call (callPaginated, callCursorPaginated) again
CallAgain ==
    /\ pc = "done"
    /\ outcome = "returned"
    /\ Len(heap) < MaxCalls - 1
    /\ heap' = Append(heap, [body |-> request.body, outcome |-> outcome])
    /\ pc' = Chain[1] \o ".handle"
    /\ attempt' = 0
    /\ nextRequest' = Undefined
    /\ response' = NoResponse
    /\ error' = NoError
    /\ outcome' = "pending"
    /\ delays' = <<>>
    /\ trace' = <<>>
    /\ everyAttemptRetryable' = TRUE
    /\ UNCHANGED <<request, suppliedHook, originalBody, firstRequest, handlers, calls, config, bank>>

NextResend == Next \/ CallAgain

SpecResend == ResendInit /\ [][NextResend]_vars

\* C37: when a Request whose earlier call returned is sent again, request
\* validation of the later call does not throw a ValidationError and leaves on
\* the Request the body the earlier call transmitted.
C37_ResendTransmitsSameBody ==
    (heap # <<>> /\ Count("RequestValidationHandler") >= 1) =>
        /\ error.class # "ValidationError"
        /\ \A i \in DOMAIN heap : request.body = heap[i].body

----------------------------------------------------------------------------
(* The bank API server: the rate limiter *)

\* new RateLimiter(maxRequests, windowMs), scaled down from 300 requests a minute
maxRequests == 2

windowMs == 3

\* the clock runs from 0 to MaxTime milliseconds
MaxTime == 5

\* requests arriving at the limiter
MaxArrivals == 5

\* req.apiKey || req.ip of the arriving requests
Identifiers == {"1234", "10.0.0.7"}

\* timestamps.filter(timestamp => now - timestamp < this.windowMs)
validRequestsAt(timestamps, now) == SelectSeq(timestamps, LAMBDA timestamp : now - timestamp < windowMs)

\* Math.ceil(ms / 1000)
CeilSeconds(ms) == (ms + 999) \div 1000

\* a middleware that records the rejected request's time as well
middlewareCountingRejected(requests, identifier, now) ==
    LET userRequests == IF identifier \in DOMAIN requests THEN requests[identifier] ELSE <<>>
        validRequests == validRequestsAt(userRequests, now)
        pushed == Append(validRequests, now)
    IN IF Len(validRequests) >= maxRequests
       THEN [requests |-> Put(requests, identifier, pushed), status |-> 429, next |-> FALSE,
             remaining |-> 0, reset |-> CeilSeconds(validRequests[1] + windowMs)]
       ELSE [requests |-> Put(requests, identifier, pushed), status |-> 0, next |-> TRUE,
             remaining |-> maxRequests - Len(pushed), reset |-> CeilSeconds(now + windowMs)]

\* RateLimiter.middleware()(req, res, next) at time now: this.requests after it,
\* the status it answered (0 when it answered nothing), whether it called
\* next(), and the X-RateLimit-Remaining and X-RateLimit-Reset headers
middleware(requests, identifier, now) ==
    LET userRequests == IF identifier \in DOMAIN requests THEN requests[identifier] ELSE <<>>
        validRequests == validRequestsAt(userRequests, now)
        pushed == Append(validRequests, now)
    IN IF Len(validRequests) >= maxRequests
       THEN [requests |-> Put(requests, identifier, userRequests), status |-> 429, next |-> FALSE,
             remaining |-> 0, reset |-> CeilSeconds(validRequests[1] + windowMs)]
       ELSE [requests |-> Put(requests, identifier, pushed), status |-> 0, next |-> TRUE,
             remaining |-> maxRequests - Len(pushed), reset |-> CeilSeconds(now + windowMs)]

\* RateLimiter.cleanup at time now: this.requests after it
cleanup(requests, now) ==
    LET kept == {identifier \in DOMAIN requests : validRequestsAt(requests[identifier], now) # <<>>}
    IN [identifier \in kept |-> validRequestsAt(requests[identifier], now)]

\* bank.requests is RateLimiter.requests, bank.now the value of Date.now(), and
\* bank.log the requests handled so far: who, when, and how they were answered
RateInit ==
    /\ bank = [requests |-> [identifier \in {} |-> <<>>], now |-> 0, log |-> <<>>, cleaned |-> FALSE]
    /\ config = <<>>
    /\ request = BuilderParams(Undefined)
    /\ firstRequest = request
    /\ pc = "listening"
    /\ suppliedHook = "CustomHook"
    /\ attempt = 0
    /\ nextRequest = Undefined
    /\ response = NoResponse
    /\ error = NoError
    /\ outcome = "pending"
    /\ delays = <<>>
    /\ trace = <<>>
    /\ originalBody = request.body
    /\ everyAttemptRetryable = TRUE
    /\ heap = <<>>
    /\ handlers = LinkedHandlers
    /\ calls = <<>>

\* time passes
Tick ==
    /\ bank.now < MaxTime
    /\ bank' = [bank EXCEPT !.now = bank.now + 1]
    /\ BankFrame

\* a request arrives and runs through the middleware
Arrive ==
    \E identifier \in Identifiers :
        /\ Len(bank.log) < MaxArrivals
        /\ LET r == middleware(bank.requests, identifier, bank.now)
           IN bank' = [bank EXCEPT
                         !.requests = r.requests,
                         !.log = Append(bank.log,
                                        [identifier |-> identifier, at |-> bank.now,
                                         status |-> r.status, next |-> r.next,
                                         remaining |-> r.remaining, reset |-> r.reset])]
        /\ BankFrame

\* the interval timer runs cleanup
Cleanup ==
    /\ bank' = [bank EXCEPT !.requests = cleanup(bank.requests, bank.now), !.cleaned = TRUE]
    /\ BankFrame

NextRate == Tick \/ Arrive \/ Cleanup

SpecRate == RateInit /\ [][NextRate]_vars

\* the requests of identifier handled before the i-th that were passed on and
\* arrived less than windowMs before time now
AdmittedWithin(identifier, i, now) ==
    {j \in 1..(i - 1) :
        /\ bank.log[j].identifier = identifier
        /\ bank.log[j].next
        /\ now - bank.log[j].at < windowMs}

\* C39: for every identifier and every window [t, t + windowMs) at most
\* maxRequests of its requests were passed on; a request is answered 429 and not
\* passed on exactly when maxRequests requests of its identifier passed on
\* earlier lie within the last windowMs, whether or not cleanup ran in between
\* and however many requests were rejected in between; and a cleanup leaves the
\* timestamps the middleware would count unchanged.
C39_AtMostMaxRequestsPerWindow ==
    /\ [](/\ \A identifier \in Identifiers, t \in 0..MaxTime :
                Cardinality({j \in DOMAIN bank.log :
                                /\ bank.log[j].identifier = identifier
                                /\ bank.log[j].next
                                /\ t <= bank.log[j].at /\ bank.log[j].at < t + windowMs})
                   <= maxRequests
          /\ \A i \in DOMAIN bank.log :
                LET full == Cardinality(AdmittedWithin(bank.log[i].identifier, i, bank.log[i].at))
                                >= maxRequests
                IN /\ bank.log[i].next = ~full
                   /\ bank.log[i].status = (IF full THEN 429 ELSE 0)
          /\ \A identifier \in Identifiers :
                Len(validRequestsAt(IF identifier \in DOMAIN bank.requests
                                    THEN bank.requests[identifier] ELSE <<>>, bank.now))
                   = Cardinality(AdmittedWithin(identifier, Len(bank.log) + 1, bank.now)))
    /\ [][bank'.log = bank.log =>
            \A identifier \in Identifiers, now \in bank'.now..MaxTime :
                middleware(bank'.requests, identifier, now).next
                   = middleware(bank.requests, identifier, now).next]_vars

\* C39 witness: an identifier was admitted twice and then answered 429 within one
\* window, a cleanup has since removed its entry, and it has been admitted again
C39_Witness ==
    /\ bank.cleaned
    /\ \E i, j, k \in DOMAIN bank.log :
          /\ i < j /\ j < k
          /\ bank.log[i].identifier = bank.log[j].identifier
          /\ bank.log[j].identifier = bank.log[k].identifier
          /\ bank.log[i].next
          /\ bank.log[j].status = 429
          /\ bank.log[k].next
          /\ \E other \in Identifiers :
                /\ other # bank.log[k].identifier
                /\ other \notin DOMAIN bank.requests
                /\ \E m \in DOMAIN bank.log : bank.log[m].identifier = other

====
